---- MODULE Spec2Model ----
(***************************************************************************)
(* Model of the reporting API of inventory_routes.py and sales_routes.py.  *)
(*                                                                         *)
(* Every endpoint is a stateless Flask handler: it reads query-string      *)
(* parameters, validates them, builds a SQL text, calls execute_query and  *)
(* maps the rows into a JSON body.  A handler is modelled as an operator   *)
(* of the request arguments and of what execute_query returns (or raises)  *)
(* on each call; the operator yields the list of execute_query calls the   *)
(* handler made and the response it returned.                              *)
(*                                                                         *)
(* Text (parameter values, SQL, messages) is a sequence of string chunks:  *)
(* a literal of the source is one chunk, request-supplied text is one      *)
(* chunk per character.  Python values of the rows are tagged records      *)
(* [t, v]: t = "null" (None), "int", "num" (float/Decimal, v in tenths),   *)
(* "str" (v a text) .                                                      *)
(***************************************************************************)
EXTENDS Integers, Sequences, FiniteSets, TLC

VARIABLES
    pc,        \* "idle": waiting for a request; "done": a request was answered
    endpoint,  \* the handler of the request
    args,      \* request.args of the request
    calls,     \* the execute_query calls the handler made, in order
    response,  \* the (body, status) the handler returned
    uncaught,  \* an exception left the handler
    frames     \* the local variables of the handler calls in progress

vars == <<pc, endpoint, args, calls, response, uncaught, frames>>

-----------------------------------------------------------------------------
(* Bounds of the model *)

\* longest request parameter value, in characters
MaxParamLen == 3
\* longest concatenated product-code string of a row, in characters
MaxCodesLen == 4
\* most rows in a result set
MaxRows == 2

-----------------------------------------------------------------------------
(* Python values *)

None == [t |-> "null", v |-> 0]
PyInt(n) == [t |-> "int", v |-> n]
\* a float or Decimal, kept in tenths: PyNum(35) is 3.5
PyNum(n10) == [t |-> "num", v |-> n10]
PyStr(s) == [t |-> "str", v |-> s]

\* Python truthiness of a value: None, 0, 0.0 and "" are false
Truthy(x) ==
    CASE x.t = "null" -> FALSE
      [] x.t = "int" -> x.v # 0
      [] x.t = "num" -> x.v # 0
      [] x.t = "str" -> x.v # <<>>

Abs(n) == IF n < 0 THEN -n ELSE n

\* truncation toward zero of a value given in tenths: int(3.7) = 3, int(-3.7) = -3
TruncTenths(n10) == IF n10 < 0 THEN -((-n10) \div 10) ELSE n10 \div 10

-----------------------------------------------------------------------------
(* Text helpers *)

Whitespace == {" ", "\t"}
Digits == <<"0", "1", "2", "3", "4", "5", "6", "7", "8", "9">>
DigitSet == {Digits[i] : i \in 1..10}
DigitVal(c) == (CHOOSE i \in 1..10 : Digits[i] = c) - 1

\* all texts over the characters cs of length 0..n
RECURSIVE TextsOfLen(_, _)
TextsOfLen(cs, n) ==
    IF n = 0 THEN {<<>>}
    ELSE {<<c>> \o t : c \in cs, t \in TextsOfLen(cs, n - 1)}
Texts(cs, n) == UNION {TextsOfLen(cs, k) : k \in 0..n}

RECURSIVE LStrip(_)
LStrip(s) ==
    IF s # <<>> /\ Head(s) \in Whitespace THEN LStrip(Tail(s)) ELSE s

RECURSIVE RStrip(_)
RStrip(s) ==
    IF s # <<>> /\ s[Len(s)] \in Whitespace
    THEN RStrip(SubSeq(s, 1, Len(s) - 1)) ELSE s

\* a handler that reads the parameter without .strip()
Strip_NoTrim(s) == s

\* str.strip(): leading and trailing whitespace removed
Strip(s) == RStrip(LStrip(s))

\* str.split(","): the pieces between commas, empty pieces kept
RECURSIVE SplitFrom(_, _, _)
SplitFrom(s, i, cur) ==
    IF i > Len(s) THEN <<cur>>
    ELSE IF s[i] = "," THEN <<cur>> \o SplitFrom(s, i + 1, <<>>)
    ELSE SplitFrom(s, i + 1, Append(cur, s[i]))
Split(s) == SplitFrom(s, 1, <<>>)

\* sep.join(parts) for texts
\* the parts put together without the separator: "".join(parts)
RECURSIVE Join_NoSeparator(_, _)
Join_NoSeparator(sep, parts) ==
    IF parts = <<>> THEN <<>>
    ELSE parts[1] \o Join_NoSeparator(sep, Tail(parts))

RECURSIVE Join(_, _)
Join(sep, parts) ==
    IF parts = <<>> THEN <<>>
    ELSE IF Len(parts) = 1 THEN parts[1]
    ELSE parts[1] \o sep \o Join(sep, Tail(parts))

\* str(n) of an integer
RECURSIVE NatToStr(_)
NatToStr(n) ==
    IF n < 10 THEN <<Digits[n + 1]>>
    ELSE NatToStr(n \div 10) \o <<Digits[(n % 10) + 1]>>
IntToStr(n) == IF n < 0 THEN <<"-">> \o NatToStr(-n) ELSE NatToStr(n)

\* int(s) of a stripped text: an optional sign, then digits with single
\* underscores allowed between digits; anything else raises ValueError
RECURSIVE DigitsValue(_, _, _)
DigitsValue(s, i, acc) ==
    IF i > Len(s) THEN acc
    ELSE IF s[i] = "_" THEN DigitsValue(s, i + 1, acc)
    ELSE DigitsValue(s, i + 1, acc * 10 + DigitVal(s[i]))

WellFormedDigits(s) ==
    /\ s # <<>>
    /\ \A i \in 1..Len(s) : s[i] \in DigitSet \cup {"_"}
    /\ s[1] # "_"
    /\ s[Len(s)] # "_"
    /\ \A i \in 1..(Len(s) - 1) : ~(s[i] = "_" /\ s[i + 1] = "_")

ParseInt(s) ==
    LET Parsed(t) ==
            LET signed == t # <<>> /\ Head(t) \in {"+", "-"}
                body == IF signed THEN Tail(t) ELSE t
            IN IF WellFormedDigits(body)
               THEN [ok |-> TRUE,
                     v |-> IF signed /\ Head(t) = "-"
                           THEN -DigitsValue(body, 1, 0) ELSE DigitsValue(body, 1, 0)]
               ELSE [ok |-> FALSE, v |-> 0]
    IN Parsed(Strip(s))

-----------------------------------------------------------------------------
(* Requests, executor outcomes, responses *)

\* str(request.args.get(name)): the text "None" when the parameter is absent
ArgsGet_NoDefault(a, name) == IF name \in DOMAIN a THEN a[name] ELSE <<"None">>

\* request.args.get(name, ""): the value, or "" when the parameter is absent
ArgsGet(a, name) == IF name \in DOMAIN a THEN a[name] ELSE <<>>

\* what one execute_query call does: returns rows, or raises err
Rows(rs) == [ok |-> TRUE, rows |-> rs, err |-> ""]
Raises(e) == [ok |-> FALSE, rows |-> <<>>, err |-> e]

\* one execute_query call of a handler: the query text and what came back
Call(sql, out) == [sql |-> sql, out |-> out]

\* jsonify(body), status
Resp(status, body) == [status |-> status, body |-> body]

\* what a handler did: the execute_query calls it made, its response, and
\* whether an exception left it uncaught
Done(cs, r) == [calls |-> cs, response |-> r, escaped |-> FALSE]


\* a step of a handler's try block: it ran to a return, or it raised
Return(cs, r) == [exc |-> "", calls |-> cs, response |-> r]
Raise(cs, e) == [exc |-> e, calls |-> cs, response |-> Resp(0, <<>>)]

\* an except clause that does not match the exception: it leaves the handler
Caught_Escapes(tried, r) ==
    [calls |-> tried.calls, response |-> Resp(0, <<>>), escaped |-> TRUE]

\* except Exception as e: the exception raised in the try block is caught and
\* the handler returns the error response r
Caught(tried, r) == Done(tried.calls, r)

\* try: ... except Exception as e: return error
\* (error is the response the except clause builds from str(e) = tried.exc)
TryExcept(tried, error) ==
    IF tried.exc # ""
    THEN Caught(tried, error)
    ELSE Done(tried.calls, tried.response)

\* the value of an expression, or the exception it raised
Ok(x) == [exc |-> "", val |-> x]
Err(e) == [exc |-> e, val |-> <<>>]

\* the records put at the head of the list (insert(0, ...)) instead of its end
MapRows_Prepends(each) ==
    LET bad == {i \in 1..Len(each) : each[i].exc # ""}
    IN IF bad # {}
       THEN Err(each[CHOOSE i \in bad : \A j \in bad : i <= j].exc)
       ELSE Ok([i \in 1..Len(each) |-> each[Len(each) + 1 - i].val])

\* a loop that skips to the result at the first row that raises: the rows
\* mapped so far are returned
MapRows_KeepsMapped(each) ==
    LET bad == {i \in 1..Len(each) : each[i].exc # ""}
        n == IF bad = {} THEN Len(each)
             ELSE (CHOOSE i \in bad : \A j \in bad : i <= j) - 1
    IN Ok([i \in 1..n |-> each[i].val])

\* [f(row) for row in rows], each[i] being what f(rows[i]) yields: the first
\* row that raises ends the comprehension
MapRows(each) ==
    LET bad == {i \in 1..Len(each) : each[i].exc # ""}
    IN IF bad # {}
       THEN Err(each[CHOOSE i \in bad : \A j \in bad : i <= j].exc)
       ELSE Ok([i \in 1..Len(each) |-> each[i].val])

\* str(e) of the exceptions Python raises in the row mappers
TypeErrorNone == "TypeError: NoneType"
ValueErrorText == "ValueError: invalid literal"

\* int(x)
PyIntOf(x) ==
    LET FromStr(n) == IF n.ok THEN Ok(n.v) ELSE Err(ValueErrorText)
    IN CASE x.t = "null" -> Err(TypeErrorNone)
         [] x.t = "int" -> Ok(x.v)
         [] x.t = "num" -> Ok(TruncTenths(x.v))
         [] x.t = "str" -> FromStr(ParseInt(x.v))

\* float(x), in tenths
PyFloatOf(x) ==
    LET FromStr(n) == IF n.ok THEN Ok(n.v * 10) ELSE Err(ValueErrorText)
    IN CASE x.t = "null" -> Err(TypeErrorNone)
         [] x.t = "int" -> Ok(x.v * 10)
         [] x.t = "num" -> Ok(x.v)
         [] x.t = "str" -> FromStr(ParseInt(x.v))

-----------------------------------------------------------------------------
(* inventory_routes.py *)

inv_unique_product_categories(a, o) ==
    LET query == <<"SELECT DISTINCT product_category FROM tbl_available_stock_anom">>
        c == <<Call(query, o[1])>>
        result == o[1].rows
    IN LET tried ==
         IF ~o[1].ok THEN Raise(c, o[1].err)
         ELSE IF result # <<>>
              THEN Return(c, Resp(200, [i \in 1..Len(result) |-> result[i][1]]))
              ELSE Return(c, Resp(404, ("status" :> 404) @@
                                       ("message" :> <<"No product categories found">>)))
       IN TryExcept(tried,
            Resp(500, ("status" :> 500) @@
                              ("message" :> <<"Error retrieving product categories: ", tried.exc>>)))

inv_unique_warehouse_locations(a, o) ==
    LET query == <<"SELECT DISTINCT warehouse_location FROM tbl_available_stock_anom">>
        c == <<Call(query, o[1])>>
        result == o[1].rows
    IN LET tried ==
         IF ~o[1].ok THEN Raise(c, o[1].err)
         ELSE IF result # <<>>
              THEN Return(c, Resp(200, [i \in 1..Len(result) |-> result[i][1]]))
              ELSE Return(c, Resp(404, ("status" :> 404) @@
                                       ("message" :> <<"No warehouse locations found">>)))
       IN TryExcept(tried,
            Resp(500, ("status" :> 500) @@
                              ("message" :> <<"Error retrieving warehouse locations: ", tried.exc>>)))

\* the comprehension written without its filter: [code.strip() for code in ...]
SplitCodes_KeepsEmpty(cell) ==
    LET pieces == IF Truthy(cell) THEN Split(cell.v) ELSE <<>>
    IN [i \in 1..Len(pieces) |-> Strip(pieces[i])]

\* product_codes = row[2].split(",") if row[2] else []
\* product_codes = [code.strip() for code in product_codes if code.strip()]
SplitCodes(cell) ==
    LET pieces == IF Truthy(cell) THEN Split(cell.v) ELSE <<>>
    IN SelectSeq([i \in 1..Len(pieces) |-> Strip(pieces[i])],
                 LAMBDA code : code # <<>>)

inv_stocked_out_products_all_locations(a, o) ==
    LET query == <<"SELECT warehouse_location, COUNT(*) as total_stocked_out_products, STUFF((SELECT ', ' + product_code FROM tbl_oos_anom t2 WHERE t2.warehouse_location = t1.warehouse_location AND t2.stock_out_reason = 'stockout due to less supply' FOR XML PATH('')), 1, 2, '') as stockout_product_codes FROM tbl_oos_anom t1 WHERE stock_out_reason = 'stockout due to less supply' GROUP BY warehouse_location ORDER BY total_stocked_out_products DESC">>
        c == <<Call(query, o[1])>>
        result == o[1].rows
    IN LET tried ==
         IF ~o[1].ok THEN Raise(c, o[1].err)
         ELSE IF result # <<>>
              THEN Return(c, Resp(200,
                     [i \in 1..Len(result) |->
                        ("Warehouse location" :> result[i][1]) @@
                        ("Total stocked out products" :> result[i][2]) @@
                        ("Product codes" :> SplitCodes(result[i][3]))]))
              ELSE Return(c, Resp(404, ("status" :> 404) @@
                                       ("message" :> <<"No stocked out products found">>)))
       IN TryExcept(tried,
            Resp(500, ("status" :> 500) @@
                              ("message" :> <<"Error retrieving stocked out products: ", tried.exc>>)))

StockItem(row) ==
    ("Product Code" :> row[1]) @@ ("Warehouse Location" :> row[2]) @@
    ("Cover Days" :> row[3]) @@ ("Current Stock" :> row[4]) @@
    ("Ideal Stock" :> row[5]) @@ ("Stock Difference" :> row[6])

inv_overstocked_products_by_location_and_product(a, o) ==
    LET query == <<"SELECT TOP 10 product_code, warehouse_location, cover_days, stock_at_hand, ideal_required_quantity, stock_diff FROM tbl_available_stock_anom WHERE stock_status = 'excess' ORDER BY stock_diff DESC">>
        c == <<Call(query, o[1])>>
        result == o[1].rows
    IN LET tried ==
         IF ~o[1].ok THEN Raise(c, o[1].err)
         ELSE IF result # <<>>
              THEN Return(c, Resp(200, [i \in 1..Len(result) |-> StockItem(result[i])]))
              ELSE Return(c, Resp(404, ("status" :> 404) @@
                                       ("message" :> <<"No overstocked items found.">>)))
       IN TryExcept(tried,
            Resp(500, ("status" :> 500) @@
                              ("message" :> <<"Error retrieving overstocked items: ", tried.exc>>)))

inv_understocked_products_by_location_and_product(a, o) ==
    LET query == <<"SELECT TOP 10 product_code, warehouse_location, cover_days, stock_at_hand, ideal_required_quantity, stock_diff FROM tbl_available_stock_anom WHERE stock_status = 'shortage' ORDER BY stock_diff ASC">>
        c == <<Call(query, o[1])>>
        result == o[1].rows
    IN LET tried ==
         IF ~o[1].ok THEN Raise(c, o[1].err)
         ELSE IF result # <<>>
              THEN Return(c, Resp(200, [i \in 1..Len(result) |-> StockItem(result[i])]))
              ELSE Return(c, Resp(404, ("message" :> <<"No understocked items found">>)))
       IN TryExcept(tried,
            Resp(500, ("error" :> <<"Failed to retrieve understocked products: ", tried.exc>>) @@
                              ("status" :> "error")))

\* the count taken without its clamp: int(x) if x is not None else 0
CountOf_NoClamp(x) ==
    IF x.t # "null" THEN PyIntOf(x) ELSE Ok(0)

\* max(0, int(x)) if x is not None else 0
CountOf(x) ==
    LET Max0(n) == IF n.exc # "" THEN n ELSE Ok(IF n.val > 0 THEN n.val ELSE 0)
    IN IF x.t # "null" THEN Max0(PyIntOf(x)) ELSE Ok(0)

StockLevelRow(row) ==
    LET warehouse == IF Truthy(row[1]) THEN row[1].v ELSE <<"Unknown Location">>
        partially_stocked == CountOf(row[2])
        fully_stocked == CountOf(row[3])
        completely_stockout == CountOf(row[4])
    IN IF partially_stocked.exc # "" THEN partially_stocked
       ELSE IF fully_stocked.exc # "" THEN fully_stocked
       ELSE IF completely_stockout.exc # "" THEN completely_stockout
       ELSE Ok(("Warehouse Location" :> warehouse) @@
               ("Partially Stocked" :> partially_stocked.val) @@
               ("Fully Stocked" :> fully_stocked.val) @@
               ("Stocked Out" :> completely_stockout.val) @@
               ("Total Items" :> partially_stocked.val + fully_stocked.val
                                 + completely_stockout.val))

inv_stock_distribution_and_status_across_all_locations(a, o) ==
    LET stock_levels_query == <<"WITH available_stock_summary AS (SELECT warehouse_location, SUM(CASE WHEN stock_status = 'shortage' THEN 1 ELSE 0 END) as partially_stocked, SUM(CASE WHEN stock_status = 'excess' THEN 1 ELSE 0 END) as fully_stocked FROM tbl_available_stock_anom GROUP BY warehouse_location), oos_summary AS (SELECT warehouse_location, COUNT(*) as completely_stockout FROM tbl_oos_anom GROUP BY warehouse_location) SELECT a.warehouse_location, a.partially_stocked, a.fully_stocked, ISNULL(o.completely_stockout, 0) as completely_stockout FROM available_stock_summary a LEFT JOIN oos_summary o ON a.warehouse_location = o.warehouse_location ORDER BY a.warehouse_location">>
        c == <<Call(stock_levels_query, o[1])>>
        results == o[1].rows
        stock_levels_data == MapRows([i \in 1..Len(results) |-> StockLevelRow(results[i])])
    IN LET tried ==
         IF ~o[1].ok THEN Raise(c, o[1].err)
         ELSE IF results = <<>>
              THEN Return(c, Resp(404, ("message" :> <<"No stock level data found">>) @@
                                       ("status" :> "empty") @@ ("data" :> <<>>)))
              ELSE IF stock_levels_data.exc # "" THEN Raise(c, stock_levels_data.exc)
              ELSE Return(c, Resp(200, stock_levels_data.val))
       IN TryExcept(tried,
            Resp(500, ("error" :> <<"Error retrieving stock levels: ", tried.exc>>) @@
                              ("status" :> "error") @@ ("data" :> None)))

\* round(x, 1) of the float x = n / d (d > 0), in tenths: the nearest tenth,
\* a tie going to the even one
RoundTenths(n, d) ==
    LET fl == (10 * n) \div d
        rem == (10 * n) % d
    IN IF 2 * rem < d THEN fl
       ELSE IF 2 * rem > d THEN fl + 1
       ELSE IF fl % 2 = 0 THEN fl ELSE fl + 1

\* repr of a float that has one decimal, given in tenths; negative says the
\* float's sign bit is set ("-0.0" when a negative value rounds to zero)
FloatToStr(t10, negative) ==
    (IF negative THEN <<"-">> ELSE <<>>)
      \o NatToStr(Abs(t10) \div 10) \o <<".">> \o NatToStr(Abs(t10) % 10)

\* f"{round(variance_percentage, 1)}%" with
\* variance_percentage = ((current_stock - ideal_stock) / ideal_stock * 100)
\*                       if ideal_stock > 0 else 0
\* The else branch is the int 0, and round(0, 1) is the int 0.
Variancy(current_stock, ideal_stock) ==
    IF ideal_stock.t = "null" THEN Err(TypeErrorNone)
    ELSE IF ideal_stock.v > 0
    THEN (IF current_stock.t = "null" THEN Err(TypeErrorNone)
          ELSE Ok(FloatToStr(RoundTenths((current_stock.v - ideal_stock.v) * 100,
                                         ideal_stock.v),
                             current_stock.v < ideal_stock.v) \o <<"%">>))
    ELSE Ok(IntToStr(0) \o <<"%">>)

VarianceItem(row) ==
    LET current_stock == row[5]
        ideal_stock == row[6]
        text == Variancy(current_stock, ideal_stock)
    IN IF text.exc # "" THEN text
       ELSE Ok(("Warehouse Location" :> row[1]) @@ ("Product Code" :> row[2]) @@
               ("Product Category" :> row[3]) @@ ("Stock Difference" :> row[4]) @@
               ("Current Stock" :> current_stock) @@
               ("Ideal Stock Requirement" :> ideal_stock) @@
               ("Variancy" :> text.val))

process_variance_data(results) == MapRows([i \in 1..Len(results) |-> VarianceItem(results[i])])

\* the two execute_query statements in the other order: the negative query
\* is issued first
inv_inventory_variance_analysis_across_locations_NegativeFirst(a, o) ==
    LET positive_query == <<"SELECT TOP 5 warehouse_location, product_code, product_category, stock_diff, stock_at_hand, ideal_required_quantity FROM tbl_available_stock_anom WHERE stock_diff > 0 ORDER BY stock_diff DESC">>
        negative_query == <<"SELECT TOP 5 warehouse_location, product_code, product_category, stock_diff, stock_at_hand, ideal_required_quantity FROM tbl_available_stock_anom WHERE stock_diff < 0 ORDER BY stock_diff ASC">>
        c1 == <<Call(negative_query, o[1])>>
        c2 == c1 \o <<Call(positive_query, o[2])>>
        negative == process_variance_data(o[1].rows)
        positive == process_variance_data(o[2].rows)
    IN LET tried ==
         IF ~o[1].ok THEN Raise(c1, o[1].err)
         ELSE IF ~o[2].ok THEN Raise(c2, o[2].err)
         ELSE IF positive.exc # "" THEN Raise(c2, positive.exc)
         ELSE IF negative.exc # "" THEN Raise(c2, negative.exc)
         ELSE Return(c2, Resp(200, ("positive_variance_data" :> positive.val) @@
                                   ("negative_variance_data" :> negative.val)))
       IN TryExcept(tried,
            Resp(500, ("status" :> 500) @@
                              ("message" :> <<"Error processing stock variance data: ", tried.exc>>)))

inv_inventory_variance_analysis_across_locations(a, o) ==
    LET positive_query == <<"SELECT TOP 5 warehouse_location, product_code, product_category, stock_diff, stock_at_hand, ideal_required_quantity FROM tbl_available_stock_anom WHERE stock_diff > 0 ORDER BY stock_diff DESC">>
        negative_query == <<"SELECT TOP 5 warehouse_location, product_code, product_category, stock_diff, stock_at_hand, ideal_required_quantity FROM tbl_available_stock_anom WHERE stock_diff < 0 ORDER BY stock_diff ASC">>
        c1 == <<Call(positive_query, o[1])>>
        c2 == c1 \o <<Call(negative_query, o[2])>>
        positive == process_variance_data(o[1].rows)
        negative == process_variance_data(o[2].rows)
    IN LET tried ==
         IF ~o[1].ok THEN Raise(c1, o[1].err)
         ELSE IF ~o[2].ok THEN Raise(c2, o[2].err)
         ELSE IF positive.exc # "" THEN Raise(c2, positive.exc)
         ELSE IF negative.exc # "" THEN Raise(c2, negative.exc)
         ELSE Return(c2, Resp(200, ("positive_variance_data" :> positive.val) @@
                                   ("negative_variance_data" :> negative.val)))
       IN TryExcept(tried,
            Resp(500, ("status" :> 500) @@
                              ("message" :> <<"Error processing stock variance data: ", tried.exc>>)))

ExpectedStockItem(row) ==
    LET required == PyIntOf(row[2])
        count == PyIntOf(row[3])
    IN IF required.exc # "" THEN required
       ELSE IF count.exc # "" THEN count
       ELSE Ok(("Product Code" :> row[1]) @@ ("Required Stock" :> required.val) @@
               ("Warehouse Location Count" :> count.val))

inv_expected_stock_requirements_for_products_till_month_ends(a, o) ==
    LET query == <<"SELECT TOP 10 product_code, SUM(required_stock) as total_required_stock, COUNT(DISTINCT warehouse_location) as location_count FROM tbl_available_stock_anom GROUP BY product_code ORDER BY total_required_stock DESC">>
        c == <<Call(query, o[1])>>
        result == o[1].rows
        expected_stock_levels == MapRows([i \in 1..Len(result) |-> ExpectedStockItem(result[i])])
    IN LET tried ==
         IF ~o[1].ok THEN Raise(c, o[1].err)
         ELSE IF result = <<>>
              THEN Return(c, Resp(404, ("status" :> 404) @@
                                       ("message" :> <<"No stock level data found">>)))
              ELSE IF expected_stock_levels.exc # "" THEN Raise(c, expected_stock_levels.exc)
              ELSE Return(c, Resp(200, expected_stock_levels.val))
       IN TryExcept(tried,
            Resp(500, ("status" :> 500) @@
                              ("message" :> <<"Error retrieving expected stock levels: ", tried.exc>>)))

inv_cover_days_summary(a, o) ==
    LET query == <<"SELECT CASE WHEN cover_days BETWEEN 0 AND 5 THEN '0-5 days' WHEN cover_days BETWEEN 6 AND 10 THEN '6-10 days' WHEN cover_days BETWEEN 11 AND 30 THEN '11-30 days' WHEN cover_days BETWEEN 31 AND 60 THEN '31-60 days' WHEN cover_days > 60 THEN 'Over 60 days' END as cover_days_range, COUNT(*) as product_count FROM tbl_available_stock_anom GROUP BY CASE WHEN cover_days BETWEEN 0 AND 5 THEN '0-5 days' WHEN cover_days BETWEEN 6 AND 10 THEN '6-10 days' WHEN cover_days BETWEEN 11 AND 30 THEN '11-30 days' WHEN cover_days BETWEEN 31 AND 60 THEN '31-60 days' WHEN cover_days > 60 THEN 'Over 60 days' END ORDER BY MIN(cover_days)">>
        c == <<Call(query, o[1])>>
        results == o[1].rows
    IN LET tried ==
         IF ~o[1].ok THEN Raise(c, o[1].err)
         ELSE IF results = <<>>
              THEN Return(c, Resp(404, ("status" :> 404) @@
                                       ("message" :> <<"No cover days distribution data found">>)))
              ELSE Return(c, Resp(200,
                     [i \in 1..Len(results) |->
                        ("Cover Days Range" :> results[i][1]) @@
                        ("Product Code and Location pair count" :> results[i][2])]))
       IN TryExcept(tried,
            Resp(500, ("status" :> 500) @@
                              ("message" :> <<"Error retrieving cover days distribution: ", tried.exc>>)))

inv_discontinued_products_across_all_warehouse_locations(a, o) ==
    LET query == <<"SELECT warehouse_location, COUNT(DISTINCT product_code) as discontinued_products_count, STUFF((SELECT ', ' + product_code FROM tbl_oos_anom t2 WHERE t2.warehouse_location = t1.warehouse_location AND t2.stock_out_reason = 'stockout due to discontinuation' FOR XML PATH('')), 1, 2, '') as discontinued_product_codes FROM tbl_oos_anom t1 WHERE stock_out_reason = 'stockout due to discontinuation' GROUP BY warehouse_location ORDER BY discontinued_products_count DESC">>
        c == <<Call(query, o[1])>>
        results == o[1].rows
    IN LET tried ==
         IF ~o[1].ok THEN Raise(c, o[1].err)
         ELSE IF results # <<>>
              THEN Return(c, Resp(200,
                     [i \in 1..Len(results) |->
                        ("Warehouse Location" :> results[i][1]) @@
                        ("Discontinued Product Count" :> results[i][2]) @@
                        ("Discontinued Product Codes" :> SplitCodes(results[i][3]))]))
              ELSE Return(c, Resp(404, ("status" :> 404) @@
                                       ("message" :> <<"No discontinued products data found">>)))
       IN TryExcept(tried,
            Resp(500, ("status" :> 500) @@
                              ("message" :> <<"Error retrieving discontinued products data: ", tried.exc>>)))

inv_get_inventory_level_for_products_and_locations(a, o) ==
    LET location == Strip(ArgsGet(a, "location"))
        product_code == Strip(ArgsGet(a, "product_code"))
        conditions ==
            (IF location # <<>>
             THEN <<(<<"warehouse_location = '">> \o location \o <<"'">>)>> ELSE <<>>)
            \o (IF product_code # <<>>
                THEN <<(<<"product_code = '">> \o product_code \o <<"'">>)>> ELSE <<>>)
        where_clause == Join(<<" AND ">>, conditions)
        query == <<"SELECT warehouse_location, product_code, stock_at_hand FROM tbl_available_stock_anom WHERE ">>
                 \o where_clause
                 \o <<" ORDER BY warehouse_location, stock_at_hand DESC">>
        c == <<Call(query, o[1])>>
        results == o[1].rows
        search_criteria ==
            (IF location # <<>> THEN <<(<<"location: ">> \o location)>> ELSE <<>>)
            \o (IF product_code # <<>>
                THEN <<(<<"product code: ">> \o product_code)>> ELSE <<>>)
    IN LET tried ==
         IF location = <<>> /\ product_code = <<>>
         THEN Return(<<>>, Resp(400, ("status" :> 400) @@
                ("message" :> <<"At least one parameter (location or product_code) is required">>)))
         ELSE IF ~o[1].ok THEN Raise(c, o[1].err)
         ELSE IF results # <<>>
              THEN Return(c, Resp(200,
                     [i \in 1..Len(results) |->
                        ("Warehouse Location" :> results[i][1]) @@
                        ("Product Code" :> results[i][2]) @@
                        ("Available stock at hand" :> results[i][3])]))
              ELSE Return(c, Resp(404, ("status" :> 404) @@
                     ("message" :> <<"No inventory data found for ">>
                                   \o Join(<<" and ">>, search_criteria))))
       IN TryExcept(tried,
            Resp(500, ("status" :> 500) @@
                ("message" :> <<"An error occurred while retrieving inventory data: ", tried.exc>>)))

\* the last check written as cover_days < 0: a threshold of 0 is let through
CoverDaysCheck_AcceptsZero(a) ==
    LET cover_days == Strip(ArgsGet(a, "cover_days"))
        n == ParseInt(cover_days)
    IN IF cover_days = <<>>
       THEN [error |-> <<"Cover days parameter is required">>, v |-> 0]
       ELSE IF ~n.ok
       THEN [error |-> <<"Invalid cover_days. Must be a valid number.">>, v |-> 0]
       ELSE IF n.v < 0
       THEN [error |-> <<"Invalid cover_days. Must be a positive integer.">>, v |-> 0]
       ELSE [error |-> <<>>, v |-> n.v]

\* the checks of cover_days before the query: the message of the 400
\* response, or no error and the threshold
CoverDaysCheck(a) ==
    LET cover_days == Strip(ArgsGet(a, "cover_days"))
        n == ParseInt(cover_days)
    IN IF cover_days = <<>>
       THEN [error |-> <<"Cover days parameter is required">>, v |-> 0]
       ELSE IF ~n.ok
       THEN [error |-> <<"Invalid cover_days. Must be a valid number.">>, v |-> 0]
       ELSE IF n.v <= 0
       THEN [error |-> <<"Invalid cover_days. Must be a positive integer.">>, v |-> 0]
       ELSE [error |-> <<>>, v |-> n.v]

inv_estimated_stockout_of_products_by_cover_days(a, o) ==
    LET checked == CoverDaysCheck(a)
        cover_days == checked.v
        query == <<"SELECT warehouse_location, COUNT(*) as total_products, ",
                   "SUM(CASE WHEN cover_days <= ">>
                 \o IntToStr(cover_days)
                 \o <<" THEN 1 ELSE 0 END)",
                      " as products_below_threshold FROM tbl_available_stock_anom GROUP BY warehouse_location HAVING ",
                      "SUM(CASE WHEN cover_days <= ">>
                 \o IntToStr(cover_days)
                 \o <<" THEN 1 ELSE 0 END)",
                      " > 0 ORDER BY products_below_threshold DESC">>
        c == <<Call(query, o[1])>>
        result == o[1].rows
    IN IF checked.error # <<>>
       THEN Done(<<>>, Resp(400, ("status" :> 400) @@ ("message" :> checked.error)))
       ELSE LET tried ==
              IF ~o[1].ok THEN Raise(c, o[1].err)
              ELSE IF result # <<>>
                   THEN Return(c, Resp(200,
                          [i \in 1..Len(result) |->
                             ("Warehouse Location" :> result[i][1]) @@
                             ("Total Products" :> result[i][2]) @@
                             ("Count of Products under given days" :> result[i][3])]))
                   ELSE Return(c, Resp(404, ("status" :> 404) @@
                          ("message" :> <<"No estimates found for the given criteria">>)))
            IN TryExcept(tried,
                 Resp(500, ("status" :> 500) @@
                     ("message" :> <<"An error occurred while retrieving stock estimates: ", tried.exc>>)))

-----------------------------------------------------------------------------
(* sales_routes.py *)

sales_unique_product_categories(a, o) ==
    LET query == <<"SELECT DISTINCT product_category FROM tbl_sales_forecast">>
        c == <<Call(query, o[1])>>
        result == o[1].rows
    IN LET tried ==
         IF ~o[1].ok THEN Raise(c, o[1].err)
         ELSE IF result # <<>>
              THEN Return(c, Resp(200, [i \in 1..Len(result) |-> result[i][1]]))
              ELSE Return(c, Resp(404, ("status" :> 404) @@
                                       ("message" :> <<"No product categories found">>)))
       IN TryExcept(tried,
            Resp(500, ("status" :> 500) @@
                              ("message" :> <<"Error retrieving product categories: ", tried.exc>>)))

sales_unique_warehouse_locations(a, o) ==
    LET query == <<"SELECT DISTINCT warehouse_location FROM tbl_sales_forecast">>
        c == <<Call(query, o[1])>>
        result == o[1].rows
    IN LET tried ==
         IF ~o[1].ok THEN Raise(c, o[1].err)
         ELSE IF result # <<>>
              THEN Return(c, Resp(200, [i \in 1..Len(result) |-> result[i][1]]))
              ELSE Return(c, Resp(404, ("status" :> 404) @@
                                       ("message" :> <<"No warehouse locations found">>)))
       IN TryExcept(tried,
            Resp(500, ("status" :> 500) @@
                              ("message" :> <<"Error retrieving warehouse locations: ", tried.exc>>)))

\* the cast written without abs: int(float(x)) if x else 0.0
Rate_Signed(x) ==
    LET ToInt(f) == IF f.exc # "" THEN f ELSE Ok(PyInt(TruncTenths(f.val)))
    IN IF Truthy(x) THEN ToInt(PyFloatOf(x)) ELSE Ok(PyNum(0))

\* the cast written without its guard: abs(int(float(x)))
Rate_NoNullCheck(x) ==
    LET AbsInt(f) == IF f.exc # "" THEN f ELSE Ok(PyInt(Abs(TruncTenths(f.val))))
    IN AbsInt(PyFloatOf(x))

\* abs(int(float(x))) if x else 0.0
Rate(x) ==
    LET AbsInt(f) == IF f.exc # "" THEN f ELSE Ok(PyInt(Abs(TruncTenths(f.val))))
    IN IF Truthy(x) THEN AbsInt(PyFloatOf(x)) ELSE Ok(PyNum(0))

\* abs(int(x)) if x else 0.0
RateInt(x) ==
    LET AbsOf(n) == IF n.exc # "" THEN n ELSE Ok(PyInt(Abs(n.val)))
    IN IF Truthy(x) THEN AbsOf(PyIntOf(x)) ELSE Ok(PyNum(0))

\* a record of one key per rate column: keys[k] holds Rate(row[cols[k]]);
\* the fields are evaluated in the order of the dict literal
RateFields(row, keys, cols) ==
    LET Fields(each) ==
            LET bad == {k \in 1..Len(keys) : each[k].exc # ""}
            IN IF bad # {}
               THEN Err(each[CHOOSE k \in bad : \A j \in bad : k <= j].exc)
               ELSE Ok([f \in {keys[k] : k \in 1..Len(keys)} |->
                          each[CHOOSE k \in 1..Len(keys) : keys[k] = f].val])
    IN Fields([k \in 1..Len(keys) |-> Rate(row[cols[k]])])

TopProductItem(row) ==
    LET Item(rates) ==
            IF rates.exc # "" THEN rates
            ELSE Ok(("Product Code" :> row[1]) @@ rates.val)
    IN Item(RateFields(row, <<"Current Month Sales Rate",
                                   "Current Month Forecast Rate",
                                   "Next Month Forecast Rate">>, <<2, 3, 4>>))

sales_top_products_and_their_projected_demand(a, o) ==
    LET query == <<"SELECT TOP 10 Product_Code, AVG(MTDSalesRate) As CurrentSalesRatePerDay, AVG(M1ForecastRate) As CurrentForecastRatePerDay, AVG(M2Forecast/26) AS NextMonthsForecastRatePerDay FROM tbl_sales_forecast GROUP BY Product_Code ORDER BY NextMonthsForecastRatePerDay DESC">>
        c == <<Call(query, o[1])>>
        results == o[1].rows
        mapped == MapRows([i \in 1..Len(results) |-> TopProductItem(results[i])])
    IN LET tried ==
         IF ~o[1].ok THEN Raise(c, o[1].err)
         ELSE IF mapped.exc # "" THEN Raise(c, mapped.exc)
         ELSE Return(c, Resp(200, mapped.val))
       IN TryExcept(tried,
            Resp(500, ("status" :> "error") @@ ("message" :> <<tried.exc>>)))

OversoldItem(row) ==
    LET Item(rates) ==
            IF rates.exc # "" THEN rates
            ELSE Ok(("Product Code" :> row[1]) @@ rates.val)
    IN Item(RateFields(row, <<"Total Forecast per day", "Total Sales per day",
                                   "Oversold per day">>, <<3, 2, 4>>))

sales_overselling_products_based_on_sales(a, o) ==
    LET query == <<"SELECT Product_Code, AVG(MTDSalesRate) AS TotalSalesPerDay, AVG(M1ForecastRate) AS TotalForecastRatePerDay, AVG(ForecastError) AS SalesDifference FROM tbl_sales_forecast WHERE Selling_Status = 'Overselling' GROUP BY Product_Code ORDER BY SalesDifference ASC">>
        c == <<Call(query, o[1])>>
        results == o[1].rows
        mapped == MapRows([i \in 1..Len(results) |-> OversoldItem(results[i])])
    IN LET tried ==
         IF ~o[1].ok THEN Raise(c, o[1].err)
         ELSE IF mapped.exc # "" THEN Raise(c, mapped.exc)
         ELSE Return(c, Resp(200,
                ("message" :> <<"All overselling products across all locations.">>) @@
                ("data" :> mapped.val)))
       IN TryExcept(tried,
            Resp(500, ("status" :> "error") @@ ("message" :> <<tried.exc>>)))

UndersoldItem(row) ==
    LET Item(rates) ==
            IF rates.exc # "" THEN rates
            ELSE Ok(("Product Code" :> row[1]) @@ rates.val)
    IN Item(RateFields(row, <<"Total Forecast per day", "Total Sales per day",
                                   "Undersold per day">>, <<3, 2, 4>>))

sales_underselling_products_based_on_sales(a, o) ==
    LET query == <<"SELECT Product_Code, AVG(MTDSalesRate) AS TotalSalesPerDay, AVG(M1ForecastRate) AS TotalForecastRatePerDay, AVG(ForecastError) AS SalesDifference FROM tbl_sales_forecast WHERE Selling_Status = 'Underselling' GROUP BY Product_Code ORDER BY TotalSalesPerDay DESC">>
        c == <<Call(query, o[1])>>
        results == o[1].rows
        mapped == MapRows([i \in 1..Len(results) |-> UndersoldItem(results[i])])
    IN LET tried ==
         IF ~o[1].ok THEN Raise(c, o[1].err)
         ELSE IF mapped.exc # "" THEN Raise(c, mapped.exc)
         ELSE Return(c, Resp(200,
                ("message" :> <<"All underselling products across all locations.">>) @@
                ("data" :> mapped.val)))
       IN TryExcept(tried,
            Resp(500, ("status" :> "error") @@ ("message" :> <<tried.exc>>)))

\* the two checks of product_code in the other order: the integer check
\* meets the empty value first
ProductCodeCheck_IntegerFirst(a) ==
    LET product_code == Strip(ArgsGet(a, "product_code"))
        n == ParseInt(product_code)
    IN IF ~n.ok
       THEN [error |-> <<"Product code must be an integer">>, v |-> 0]
       ELSE IF product_code = <<>>
       THEN [error |-> <<"Product code is required">>, v |-> 0]
       ELSE [error |-> <<>>, v |-> n.v]

\* the checks of cover_days copied to product_code: values <= 0 are refused
ProductCodeCheck_RefusesNonPositive(a) ==
    LET product_code == Strip(ArgsGet(a, "product_code"))
        n == ParseInt(product_code)
    IN IF product_code = <<>>
       THEN [error |-> <<"Product code is required">>, v |-> 0]
       ELSE IF ~n.ok \/ n.v <= 0
       THEN [error |-> <<"Product code must be an integer">>, v |-> 0]
       ELSE [error |-> <<>>, v |-> n.v]

\* the checks of product_code before the query: the message of the 400
\* response, or no error and the product code
ProductCodeCheck(a) ==
    LET product_code == Strip(ArgsGet(a, "product_code"))
        n == ParseInt(product_code)
    IN IF product_code = <<>>
       THEN [error |-> <<"Product code is required">>, v |-> 0]
       ELSE IF ~n.ok
       THEN [error |-> <<"Product code must be an integer">>, v |-> 0]
       ELSE [error |-> <<>>, v |-> n.v]

SalesRateItem(row) ==
    LET Item(rate) ==
            IF rate.exc # "" THEN rate
            ELSE Ok(("Warehouse Location" :> row[1]) @@ ("Sales rate per day" :> rate.val))
    IN Item(RateInt(row[2]))

sales_sales_rate_by_product_and_location(a, o) ==
    LET checked == ProductCodeCheck(a)
        product_code == checked.v
        query == <<"SELECT warehouse_location, AVG(MTDSalesRate) AS Sales FROM tbl_sales_forecast WHERE Product_Code = ">>
                 \o IntToStr(product_code)
                 \o <<" GROUP BY warehouse_location ORDER BY Sales DESC">>
        c == <<Call(query, o[1])>>
        results == o[1].rows
        mapped == MapRows([i \in 1..Len(results) |-> SalesRateItem(results[i])])
    IN IF checked.error # <<>>
       THEN Done(<<>>, Resp(400, ("status" :> "error") @@ ("message" :> checked.error)))
       ELSE LET tried ==
              IF ~o[1].ok THEN Raise(c, o[1].err)
              ELSE IF mapped.exc # "" THEN Raise(c, mapped.exc)
              ELSE Return(c, Resp(200, mapped.val))
            IN TryExcept(tried,
                 Resp(500, ("status" :> "error") @@ ("message" :> <<tried.exc>>)))

ForecastItem(row) ==
    LET Item(rates) ==
            IF rates.exc # "" THEN rates
            ELSE Ok(("Warehouse Location" :> row[1]) @@ ("Product Code" :> row[2]) @@ rates.val)
    IN Item(RateFields(row, <<"Average Forecast Rate", "Average Sales Rate",
                                   "Average Forecast Error">>, <<3, 4, 5>>))

sales_forecast_sales_vs_actual_sales_for_products_and_locations(a, o) ==
    LET checked == ProductCodeCheck(a)
        product_code == checked.v
        query == <<"SELECT warehouse_location, product_code, AVG(M1ForecastRate) AS Total_Forecast, AVG(MTDSalesRate) AS Total_Actual_Sales, AVG(ForecastError) AS Total_Forecast_Error FROM tbl_sales_forecast WHERE product_code = ">>
                 \o IntToStr(product_code)
                 \o <<" GROUP BY warehouse_location, product_code ORDER BY Total_Forecast DESC">>
        c == <<Call(query, o[1])>>
        results == o[1].rows
        mapped == MapRows([i \in 1..Len(results) |-> ForecastItem(results[i])])
    IN IF checked.error # <<>>
       THEN Done(<<>>, Resp(400, ("status" :> "error") @@ ("message" :> checked.error)))
       ELSE LET tried ==
              IF ~o[1].ok THEN Raise(c, o[1].err)
              ELSE IF mapped.exc # "" THEN Raise(c, mapped.exc)
              ELSE Return(c, Resp(200, mapped.val))
            IN TryExcept(tried,
                 Resp(500, ("status" :> "error") @@ ("message" :> <<tried.exc>>)))

-----------------------------------------------------------------------------
(* Routing *)

\* the handler the blueprints register for the route ep, applied to the
\* request arguments a and the executor's outcomes o
Dispatch(ep, a, o) ==
    CASE ep = "inventory/unique_product_categories" ->
           inv_unique_product_categories(a, o)
      [] ep = "inventory/unique_warehouse_locations" ->
           inv_unique_warehouse_locations(a, o)
      [] ep = "inventory/stocked_out_products_all_locations" ->
           inv_stocked_out_products_all_locations(a, o)
      [] ep = "inventory/overstocked_products_by_location_and_product" ->
           inv_overstocked_products_by_location_and_product(a, o)
      [] ep = "inventory/understocked_products_by_location_and_product" ->
           inv_understocked_products_by_location_and_product(a, o)
      [] ep = "inventory/stock_distribution_and_status_across_all_locations" ->
           inv_stock_distribution_and_status_across_all_locations(a, o)
      [] ep = "inventory/inventory_variance_analysis_across_locations" ->
           inv_inventory_variance_analysis_across_locations(a, o)
      [] ep = "inventory/expected_stock_requirements_for_products_till_month_ends" ->
           inv_expected_stock_requirements_for_products_till_month_ends(a, o)
      [] ep = "inventory/cover_days_summary" ->
           inv_cover_days_summary(a, o)
      [] ep = "inventory/discontinued_products_across_all_warehouse_locations" ->
           inv_discontinued_products_across_all_warehouse_locations(a, o)
      [] ep = "inventory/get_inventory_level_for_products_and_locations" ->
           inv_get_inventory_level_for_products_and_locations(a, o)
      [] ep = "inventory/estimated_stockout_of_products_by_cover_days" ->
           inv_estimated_stockout_of_products_by_cover_days(a, o)
      [] ep = "sales/unique_product_categories" ->
           sales_unique_product_categories(a, o)
      [] ep = "sales/unique_warehouse_locations" ->
           sales_unique_warehouse_locations(a, o)
      [] ep = "sales/top_products_and_their_projected_demand" ->
           sales_top_products_and_their_projected_demand(a, o)
      [] ep = "sales/overselling_products_based_on_sales" ->
           sales_overselling_products_based_on_sales(a, o)
      [] ep = "sales/underselling_products_based_on_sales" ->
           sales_underselling_products_based_on_sales(a, o)
      [] ep = "sales/sales_rate_by_product_and_location" ->
           sales_sales_rate_by_product_and_location(a, o)
      [] ep = "sales/forecast_sales_vs_actual_sales_for_products_and_locations" ->
           sales_forecast_sales_vs_actual_sales_for_products_and_locations(a, o)

-----------------------------------------------------------------------------
(* The requests and executor results the model explores *)

\* str(e) of what execute_query raises
ErrTexts == {"connection lost", "query timed out"}

\* result sets of at most n rows drawn from rows
ResultSets(rows, n) == UNION {[1..k -> rows] : k \in 0..n}

\* what execute_query may do: raise, return any one row of all, or return up
\* to MaxRows rows of few
Outcomes(all, few) ==
    {Raises(e) : e \in ErrTexts}
      \cup {Rows(<<r>>) : r \in all}
      \cup {Rows(rs) : rs \in ResultSets(few, MaxRows)}

\* the query string of a request to an endpoint that reads no parameter
IgnoredArgs == {<<>>, ("product_code" :> <<"1">>)}

\* characters of the values sent as cover_days and product_code (sales)
IntChars == {"0", "5", "-", "+", "_", " ", "a"}
IntTexts == Texts(IntChars, MaxParamLen)
FewIntTexts == {<<"5">>, <<" ", "1", "2">>, <<"-", "3">>}

\* characters of the values sent as location and product_code (inventory)
NameChars == {"A", "'", " "}
NameTexts == Texts(NameChars, MaxParamLen)

\* request.args with each of names absent or set to one of texts
ArgSets(names, texts) ==
    UNION {[present -> texts] : present \in SUBSET names}

\* characters of a concatenated product-code string
CodeChars == {"A", " ", ","}
CodeTexts == Texts(CodeChars, MaxCodesLen)

NameRows == {<<PyStr(<<"Electronics">>)>>, <<PyStr(<<"Toys">>)>>, <<None>>}

CodeRowsAll ==
    {<<PyStr(<<"W1">>), PyInt(3), cell>> :
        cell \in {PyStr(t) : t \in CodeTexts} \cup {None}}
CodeRowsFew ==
    {<<PyStr(<<"W1">>), PyInt(3), PyStr(<<"A", "1", ",", " ", "B", "2", ",", " ", "C", "3">>)>>,
     <<PyStr(<<"W2">>), PyInt(1), PyStr(<<" ", "A", "1", " ", ",", ",">>)>>,
     <<PyStr(<<"W3">>), PyInt(0), None>>}

StockRows ==
    {<<PyStr(<<"P1">>), PyStr(<<"W1">>), PyInt(4), PyInt(150), PyInt(100), PyInt(50)>>,
     <<PyStr(<<"P2">>), PyStr(<<"W2">>), None, PyInt(10), PyInt(30), PyInt(-20)>>}

CountCells == {None, PyInt(0), PyInt(2), PyInt(-1), PyNum(15)}
LevelRowsAll ==
    {<<w, p, f, s>> : w \in {PyStr(<<"W1">>), None},
                      p \in CountCells, f \in CountCells, s \in CountCells}
LevelRowsFew ==
    {<<PyStr(<<"W1">>), PyInt(2), PyInt(1), PyInt(0)>>,
     <<PyStr(<<"W2">>), PyInt(0), None, PyInt(4)>>}

StockCells == {None, PyInt(0), PyInt(-5), PyInt(3), PyInt(16), PyInt(17),
               PyInt(100), PyInt(150)}
VarianceRowsAll ==
    {<<PyStr(<<"W1">>), PyStr(<<"P1">>), PyStr(<<"Toys">>), PyInt(1), cur, ideal>> :
        cur \in StockCells, ideal \in StockCells}
VarianceRowsFew ==
    {<<PyStr(<<"W1">>), PyStr(<<"P1">>), PyStr(<<"Toys">>), PyInt(50), PyInt(150), PyInt(100)>>,
     <<PyStr(<<"W2">>), PyStr(<<"P2">>), PyStr(<<"Toys">>), PyInt(-5), PyInt(0), PyInt(0)>>}

ExpectedRows ==
    {<<PyStr(<<"P1">>), PyInt(40), PyInt(2)>>,
     <<PyStr(<<"P2">>), PyNum(125), PyInt(1)>>,
     <<PyStr(<<"P3">>), None, PyInt(1)>>}

CoverRows ==
    {<<PyStr(<<"0-5 days">>), PyInt(7)>>, <<PyStr(<<"Over 60 days">>), PyInt(1)>>,
     <<None, PyInt(2)>>}

InventoryRows ==
    {<<PyStr(<<"W1">>), PyStr(<<"A">>), PyInt(9)>>,
     <<PyStr(<<"W2">>), PyStr(<<"A">>), PyInt(4)>>}

EstimateRows ==
    {<<PyStr(<<"W1">>), PyInt(9), PyInt(4)>>, <<PyStr(<<"W2">>), PyInt(5), PyInt(1)>>}

\* what a rate column (an AVG) may hold
RateCells == {None, PyInt(0), PyNum(0), PyNum(-37), PyNum(5), PyInt(12),
              PyStr(<<"n", "/", "a">>)}
RateRowsAll ==
    {<<PyStr(<<"P1">>), r1, r2, r3>> : r1 \in RateCells, r2 \in RateCells, r3 \in RateCells}
RateRowsFew ==
    {<<PyStr(<<"P1">>), PyNum(125), PyNum(-37), None>>,
     <<PyStr(<<"P2">>), PyInt(0), PyNum(9), PyNum(220)>>}

SalesRateRowsAll == {<<PyStr(<<"W1">>), r>> : r \in RateCells}
SalesRateRowsFew == {<<PyStr(<<"W1">>), PyNum(125)>>, <<PyStr(<<"W2">>), None>>}

ForecastRowsAll ==
    {<<PyStr(<<"W1">>), PyInt(5), r1, r2, r3>> :
        r1 \in RateCells, r2 \in RateCells, r3 \in RateCells}
ForecastRowsFew ==
    {<<PyStr(<<"W1">>), PyInt(5), PyNum(125), PyNum(-37), None>>,
     <<PyStr(<<"W2">>), PyInt(5), PyInt(0), PyNum(9), PyNum(220)>>}

-----------------------------------------------------------------------------
(* The server: one request at a time, each answered by its handler *)

Init ==
    /\ pc = "idle"
    /\ endpoint = ""
    /\ args = <<>>
    /\ calls = <<>>
    /\ response = Resp(0, <<>>)
    /\ uncaught = FALSE
    /\ frames = <<>>

\* the request a to endpoint ep is answered as its handler did
Serve(ep, a, did) ==
    /\ pc' = "done"
    /\ endpoint' = ep
    /\ args' = a
    /\ calls' = did.calls
    /\ response' = did.response
    /\ uncaught' = did.escaped
    /\ UNCHANGED frames

InvUniqueProductCategories ==
    /\ pc = "idle"
    /\ \E a \in IgnoredArgs, o \in Outcomes(NameRows, NameRows) :
           Serve("inventory/unique_product_categories", a,
              inv_unique_product_categories(a, <<o>>))

InvUniqueWarehouseLocations ==
    /\ pc = "idle"
    /\ \E a \in IgnoredArgs, o \in Outcomes(NameRows, NameRows) :
           Serve("inventory/unique_warehouse_locations", a,
              inv_unique_warehouse_locations(a, <<o>>))

StockedOutProductsAllLocations ==
    /\ pc = "idle"
    /\ \E a \in IgnoredArgs, o \in Outcomes(CodeRowsAll, CodeRowsFew) :
           Serve("inventory/stocked_out_products_all_locations", a,
              inv_stocked_out_products_all_locations(a, <<o>>))

OverstockedProducts ==
    /\ pc = "idle"
    /\ \E a \in IgnoredArgs, o \in Outcomes(StockRows, StockRows) :
           Serve("inventory/overstocked_products_by_location_and_product", a,
              inv_overstocked_products_by_location_and_product(a, <<o>>))

UnderstockedProducts ==
    /\ pc = "idle"
    /\ \E a \in IgnoredArgs, o \in Outcomes(StockRows, StockRows) :
           Serve("inventory/understocked_products_by_location_and_product", a,
              inv_understocked_products_by_location_and_product(a, <<o>>))

StockDistribution ==
    /\ pc = "idle"
    /\ \E a \in IgnoredArgs, o \in Outcomes(LevelRowsAll, LevelRowsFew) :
           Serve("inventory/stock_distribution_and_status_across_all_locations", a,
              inv_stock_distribution_and_status_across_all_locations(a, <<o>>))

InventoryVarianceAnalysis ==
    /\ pc = "idle"
    /\ \E a \in IgnoredArgs, o1 \in Outcomes(VarianceRowsAll, VarianceRowsFew),
          o2 \in Outcomes(VarianceRowsFew, VarianceRowsFew) :
           \/ Serve("inventory/inventory_variance_analysis_across_locations", a,
              inv_inventory_variance_analysis_across_locations(a, <<o1, o2>>))
           \/ Serve("inventory/inventory_variance_analysis_across_locations", a,
              inv_inventory_variance_analysis_across_locations(a, <<o2, o1>>))

ExpectedStockRequirements ==
    /\ pc = "idle"
    /\ \E a \in IgnoredArgs, o \in Outcomes(ExpectedRows, ExpectedRows) :
           Serve("inventory/expected_stock_requirements_for_products_till_month_ends", a,
              inv_expected_stock_requirements_for_products_till_month_ends(a, <<o>>))

CoverDaysSummary ==
    /\ pc = "idle"
    /\ \E a \in IgnoredArgs, o \in Outcomes(CoverRows, CoverRows) :
           Serve("inventory/cover_days_summary", a,
              inv_cover_days_summary(a, <<o>>))

DiscontinuedProducts ==
    /\ pc = "idle"
    /\ \E a \in IgnoredArgs, o \in Outcomes(CodeRowsAll, CodeRowsFew) :
           Serve("inventory/discontinued_products_across_all_warehouse_locations", a,
              inv_discontinued_products_across_all_warehouse_locations(a, <<o>>))

GetInventoryLevel ==
    /\ pc = "idle"
    /\ \E a \in ArgSets({"location", "product_code"}, NameTexts),
          o \in Outcomes({}, InventoryRows) :
           Serve("inventory/get_inventory_level_for_products_and_locations", a,
              inv_get_inventory_level_for_products_and_locations(a, <<o>>))

EstimatedStockout ==
    /\ pc = "idle"
    /\ \/ \E a \in ArgSets({"cover_days"}, IntTexts), o \in Outcomes(EstimateRows, {}) :
              Serve("inventory/estimated_stockout_of_products_by_cover_days", a,
              inv_estimated_stockout_of_products_by_cover_days(a, <<o>>))
       \/ \E a \in ArgSets({"cover_days"}, FewIntTexts),
             o \in Outcomes(EstimateRows, EstimateRows) :
              Serve("inventory/estimated_stockout_of_products_by_cover_days", a,
              inv_estimated_stockout_of_products_by_cover_days(a, <<o>>))

SalesUniqueProductCategories ==
    /\ pc = "idle"
    /\ \E a \in IgnoredArgs, o \in Outcomes(NameRows, NameRows) :
           Serve("sales/unique_product_categories", a,
              sales_unique_product_categories(a, <<o>>))

SalesUniqueWarehouseLocations ==
    /\ pc = "idle"
    /\ \E a \in IgnoredArgs, o \in Outcomes(NameRows, NameRows) :
           Serve("sales/unique_warehouse_locations", a,
              sales_unique_warehouse_locations(a, <<o>>))

TopProducts ==
    /\ pc = "idle"
    /\ \E a \in IgnoredArgs, o \in Outcomes(RateRowsAll, RateRowsFew) :
           Serve("sales/top_products_and_their_projected_demand", a,
              sales_top_products_and_their_projected_demand(a, <<o>>))

OversellingProducts ==
    /\ pc = "idle"
    /\ \E a \in IgnoredArgs, o \in Outcomes(RateRowsAll, RateRowsFew) :
           Serve("sales/overselling_products_based_on_sales", a,
              sales_overselling_products_based_on_sales(a, <<o>>))

UndersellingProducts ==
    /\ pc = "idle"
    /\ \E a \in IgnoredArgs, o \in Outcomes(RateRowsAll, RateRowsFew) :
           Serve("sales/underselling_products_based_on_sales", a,
              sales_underselling_products_based_on_sales(a, <<o>>))

SalesRateByProduct ==
    /\ pc = "idle"
    /\ \/ \E a \in ArgSets({"product_code"}, IntTexts), o \in Outcomes(SalesRateRowsFew, {}) :
              Serve("sales/sales_rate_by_product_and_location", a,
              sales_sales_rate_by_product_and_location(a, <<o>>))
       \/ \E a \in ArgSets({"product_code"}, FewIntTexts),
             o \in Outcomes(SalesRateRowsAll, SalesRateRowsFew) :
              Serve("sales/sales_rate_by_product_and_location", a,
              sales_sales_rate_by_product_and_location(a, <<o>>))

ForecastVsActual ==
    /\ pc = "idle"
    /\ \/ \E a \in ArgSets({"product_code"}, IntTexts), o \in Outcomes(ForecastRowsFew, {}) :
              Serve("sales/forecast_sales_vs_actual_sales_for_products_and_locations", a,
              sales_forecast_sales_vs_actual_sales_for_products_and_locations(a, <<o>>))
       \/ \E a \in ArgSets({"product_code"}, FewIntTexts),
             o \in Outcomes(ForecastRowsAll, ForecastRowsFew) :
              Serve("sales/forecast_sales_vs_actual_sales_for_products_and_locations", a,
              sales_forecast_sales_vs_actual_sales_for_products_and_locations(a, <<o>>))

\* the response is sent; nothing of the request is kept
NextRequest ==
    /\ pc = "done"
    /\ pc' = "idle"
    /\ endpoint' = ""
    /\ args' = <<>>
    /\ calls' = <<>>
    /\ response' = Resp(0, <<>>)
    /\ uncaught' = FALSE
    /\ UNCHANGED frames

Next ==
    \/ InvUniqueProductCategories
    \/ InvUniqueWarehouseLocations
    \/ StockedOutProductsAllLocations
    \/ OverstockedProducts
    \/ UnderstockedProducts
    \/ StockDistribution
    \/ InventoryVarianceAnalysis
    \/ ExpectedStockRequirements
    \/ CoverDaysSummary
    \/ DiscontinuedProducts
    \/ GetInventoryLevel
    \/ EstimatedStockout
    \/ SalesUniqueProductCategories
    \/ SalesUniqueWarehouseLocations
    \/ TopProducts
    \/ OversellingProducts
    \/ UndersellingProducts
    \/ SalesRateByProduct
    \/ ForecastVsActual
    \/ NextRequest

Spec == Init /\ [][Next]_vars

-----------------------------------------------------------------------------
(* Concurrent requests: the handlers that build their result statement by  *)
(* statement, run by two worker threads of the server.  In this            *)
(* specification pc, endpoint, args, calls, response and uncaught hold one *)
(* value per worker, and frames holds the local variables of each call.    *)

Workers == {"w1", "w2"}

\* every call of a handler binds its own locals: the frame of worker w's call
\* (the module-level variable of a handler that kept its lists global)
FrameOf_Module(w) == CHOOSE f \in Workers : TRUE

\* every call of a handler binds its own locals: the frame of worker w's call
FrameOf(w) == w

\* the locals of a handler call that has just begun
NewFrame ==
    [location |-> <<>>, product_code |-> <<>>, conditions |-> <<>>,
     results |-> <<>>, next |-> 1, stock_levels_data |-> <<>>,
     total_partially_stocked |-> 0, total_fully_stocked |-> 0,
     total_completely_stockout |-> 0]

Local(w) == frames[FrameOf(w)]

\* the parameter values of the concurrent requests
ConcurrentTexts == {<<"A">>, <<" ", "B">>, <<" ">>}
ConcurrentArgs(ep) ==
    IF ep = "inventory/get_inventory_level_for_products_and_locations"
    THEN ArgSets({"location", "product_code"}, ConcurrentTexts)
    ELSE {<<>>}

InitConcurrent ==
    /\ pc = [w \in Workers |-> "idle"]
    /\ endpoint = [w \in Workers |-> ""]
    /\ args = [w \in Workers |-> <<>>]
    /\ calls = [w \in Workers |-> <<>>]
    /\ response = [w \in Workers |-> Resp(0, <<>>)]
    /\ uncaught = [w \in Workers |-> FALSE]
    /\ frames = [f \in Workers |-> NewFrame]

\* worker w's call returns r
Returns(w, r) ==
    /\ pc' = [pc EXCEPT ![w] = "done"]
    /\ response' = [response EXCEPT ![w] = r]

\* a request is routed to worker w and its handler is called
Receive(w) ==
    /\ pc[w] = "idle"
    /\ \E ep \in {"inventory/stock_distribution_and_status_across_all_locations",
                  "inventory/get_inventory_level_for_products_and_locations"} :
         \E a \in ConcurrentArgs(ep) :
           /\ endpoint' = [endpoint EXCEPT ![w] = ep]
           /\ args' = [args EXCEPT ![w] = a]
    /\ pc' = [pc EXCEPT ![w] = "called"]
    /\ frames' = [frames EXCEPT ![FrameOf(w)] = NewFrame]
    /\ UNCHANGED <<calls, response, uncaught>>

\* results = execute_query(stock_levels_query); if not results: return 404;
\* the lists and the accumulators are set up
StockLevelsQuery(w) ==
    /\ pc[w] = "called"
    /\ endpoint[w] = "inventory/stock_distribution_and_status_across_all_locations"
    /\ \E o \in Outcomes({}, LevelRowsFew) :
         /\ calls' = [calls EXCEPT ![w] =
                inv_stock_distribution_and_status_across_all_locations(args[w], <<o>>).calls]
         /\ IF ~o.ok
            THEN /\ Returns(w, Resp(500, ("error" :> <<"Error retrieving stock levels: ", o.err>>) @@
                                         ("status" :> "error") @@ ("data" :> None)))
                 /\ UNCHANGED frames
            ELSE IF o.rows = <<>>
            THEN /\ Returns(w, Resp(404, ("message" :> <<"No stock level data found">>) @@
                                         ("status" :> "empty") @@ ("data" :> <<>>)))
                 /\ UNCHANGED frames
            ELSE /\ pc' = [pc EXCEPT ![w] = "rows"]
                 /\ frames' = [frames EXCEPT ![FrameOf(w)] =
                        [Local(w) EXCEPT !.results = o.rows, !.next = 1,
                                         !.stock_levels_data = <<>>,
                                         !.total_partially_stocked = 0,
                                         !.total_fully_stocked = 0,
                                         !.total_completely_stockout = 0]]
                 /\ UNCHANGED response
    /\ UNCHANGED <<endpoint, args, uncaught>>

\* one turn of "for row in results": the counts of the row are added to the
\* accumulators and its record is appended
StockLevelsRow(w) ==
    LET Turn(f, item) ==
            IF item.exc # ""
            THEN /\ Returns(w, Resp(500, ("error" :> <<"Error retrieving stock levels: ", item.exc>>) @@
                                         ("status" :> "error") @@ ("data" :> None)))
                 /\ UNCHANGED frames
            ELSE /\ frames' = [frames EXCEPT ![FrameOf(w)] =
                        [f EXCEPT !.next = f.next + 1,
                                  !.stock_levels_data = Append(f.stock_levels_data, item.val),
                                  !.total_partially_stocked =
                                      f.total_partially_stocked + item.val["Partially Stocked"],
                                  !.total_fully_stocked =
                                      f.total_fully_stocked + item.val["Fully Stocked"],
                                  !.total_completely_stockout =
                                      f.total_completely_stockout + item.val["Stocked Out"]]]
                 /\ UNCHANGED <<pc, response>>
    IN /\ pc[w] = "rows"
       /\ Local(w).next <= Len(Local(w).results)
       /\ Turn(Local(w), StockLevelRow(Local(w).results[Local(w).next]))
       /\ UNCHANGED <<endpoint, args, calls, uncaught>>

\* return jsonify(stock_levels_data), 200
StockLevelsReturn(w) ==
    /\ pc[w] = "rows"
    /\ Local(w).next > Len(Local(w).results)
    /\ Returns(w, Resp(200, Local(w).stock_levels_data))
    /\ UNCHANGED <<endpoint, args, calls, uncaught, frames>>

\* location and product_code are read; 400 when both are empty;
\* conditions = []
InventoryParams(w) ==
    LET Read(location, product_code) ==
            IF location = <<>> /\ product_code = <<>>
            THEN /\ Returns(w, Resp(400, ("status" :> 400) @@
                      ("message" :> <<"At least one parameter (location or product_code) is required">>)))
                 /\ UNCHANGED frames
            ELSE /\ pc' = [pc EXCEPT ![w] = "location"]
                 /\ frames' = [frames EXCEPT ![FrameOf(w)] =
                        [Local(w) EXCEPT !.location = location,
                                         !.product_code = product_code,
                                         !.conditions = <<>>]]
                 /\ UNCHANGED response
    IN /\ pc[w] = "called"
       /\ endpoint[w] = "inventory/get_inventory_level_for_products_and_locations"
       /\ Read(Strip(ArgsGet(args[w], "location")), Strip(ArgsGet(args[w], "product_code")))
       /\ UNCHANGED <<endpoint, args, calls, uncaught>>

\* if location: conditions.append(f"warehouse_location = '{location}'")
InventoryLocationCondition(w) ==
    /\ pc[w] = "location"
    /\ pc' = [pc EXCEPT ![w] = "product"]
    /\ frames' = [frames EXCEPT ![FrameOf(w)] =
           [Local(w) EXCEPT !.conditions =
               IF Local(w).location # <<>>
               THEN Append(Local(w).conditions,
                           <<"warehouse_location = '">> \o Local(w).location \o <<"'">>)
               ELSE Local(w).conditions]]
    /\ UNCHANGED <<endpoint, args, calls, response, uncaught>>

\* if product_code: conditions.append(f"product_code = '{product_code}'")
InventoryProductCondition(w) ==
    /\ pc[w] = "product"
    /\ pc' = [pc EXCEPT ![w] = "query"]
    /\ frames' = [frames EXCEPT ![FrameOf(w)] =
           [Local(w) EXCEPT !.conditions =
               IF Local(w).product_code # <<>>
               THEN Append(Local(w).conditions,
                           <<"product_code = '">> \o Local(w).product_code \o <<"'">>)
               ELSE Local(w).conditions]]
    /\ UNCHANGED <<endpoint, args, calls, response, uncaught>>

\* the query is built from conditions and executed; the rows are mapped, or
\* the 404 message is built from location and product_code
InventoryQuery(w) ==
    LET Run(f, query, o) ==
            /\ calls' = [calls EXCEPT ![w] = <<Call(query, o)>>]
            /\ IF ~o.ok
               THEN Returns(w, Resp(500, ("status" :> 500) @@
                      ("message" :> <<"An error occurred while retrieving inventory data: ", o.err>>)))
               ELSE IF o.rows # <<>>
               THEN Returns(w, Resp(200,
                      [i \in 1..Len(o.rows) |->
                         ("Warehouse Location" :> o.rows[i][1]) @@
                         ("Product Code" :> o.rows[i][2]) @@
                         ("Available stock at hand" :> o.rows[i][3])]))
               ELSE Returns(w, Resp(404, ("status" :> 404) @@
                      ("message" :> <<"No inventory data found for ">>
                         \o Join(<<" and ">>,
                              (IF f.location # <<>>
                               THEN <<(<<"location: ">> \o f.location)>> ELSE <<>>)
                              \o (IF f.product_code # <<>>
                                  THEN <<(<<"product code: ">> \o f.product_code)>>
                                  ELSE <<>>)))))
    IN /\ pc[w] = "query"
       /\ \E o \in Outcomes({}, InventoryRows) :
            Run(Local(w),
                <<"SELECT warehouse_location, product_code, stock_at_hand FROM tbl_available_stock_anom WHERE ">>
                  \o Join(<<" AND ">>, Local(w).conditions)
                  \o <<" ORDER BY warehouse_location, stock_at_hand DESC">>,
                o)
       /\ UNCHANGED <<endpoint, args, uncaught, frames>>

\* worker w's response is sent; the call's locals are gone
Reply(w) ==
    /\ pc[w] = "done"
    /\ pc' = [pc EXCEPT ![w] = "idle"]
    /\ endpoint' = [endpoint EXCEPT ![w] = ""]
    /\ args' = [args EXCEPT ![w] = <<>>]
    /\ calls' = [calls EXCEPT ![w] = <<>>]
    /\ response' = [response EXCEPT ![w] = Resp(0, <<>>)]
    /\ UNCHANGED <<uncaught, frames>>

NextConcurrent ==
    \E w \in Workers :
        \/ Receive(w)
        \/ StockLevelsQuery(w)
        \/ StockLevelsRow(w)
        \/ StockLevelsReturn(w)
        \/ InventoryParams(w)
        \/ InventoryLocationCondition(w)
        \/ InventoryProductCondition(w)
        \/ InventoryQuery(w)
        \/ Reply(w)

Concurrent == InitConcurrent /\ [][NextConcurrent]_vars

-----------------------------------------------------------------------------
(* Properties *)

EstimatedStockoutEp == "inventory/estimated_stockout_of_products_by_cover_days"
InventoryLevelEp == "inventory/get_inventory_level_for_products_and_locations"
SalesRateEp == "sales/sales_rate_by_product_and_location"
ForecastEp == "sales/forecast_sales_vs_actual_sales_for_products_and_locations"
VarianceEp == "inventory/inventory_variance_analysis_across_locations"
TopProductsEp == "sales/top_products_and_their_projected_demand"

\* the request carries no parameter name, or one made of whitespace only
Blank(name) ==
    \/ name \notin DOMAIN args
    \/ \A i \in 1..Len(args[name]) : args[name][i] \in {" ", "\t"}

\* the request lacks the parameter its endpoint requires
RequiredMissing ==
    \/ endpoint = EstimatedStockoutEp /\ Blank("cover_days")
    \/ endpoint \in {SalesRateEp, ForecastEp} /\ Blank("product_code")
    \/ endpoint = InventoryLevelEp /\ Blank("location") /\ Blank("product_code")

\* C1: a request whose required parameter is absent, empty or only
\* whitespace is answered 400 and execute_query is not called
C1_RequiredMissingIs400 ==
    (pc = "done" /\ RequiredMissing) => (response.status = 400 /\ calls = <<>>)

C1_Witness ==
    /\ pc = "done"
    /\ endpoint = InventoryLevelEp
    /\ DOMAIN args = {"location"}
    /\ args["location"] = <<" ", " ">>
    /\ response.status = 400
    /\ calls = <<>>

\* the positions in sql of the chunk that opens a threshold condition
ThresholdAt(sql) == {k \in 1..Len(sql) : sql[k] = "SUM(CASE WHEN cover_days <= "}

\* the condition opened at position k of sql compares cover_days with n
ThresholdIs(sql, k, n) ==
    LET d == IntToStr(n)
    IN /\ k + Len(d) + 1 <= Len(sql)
       /\ SubSeq(sql, k + 1, k + Len(d)) = d
       /\ sql[k + Len(d) + 1] = " THEN 1 ELSE 0 END)"

\* C2: a cover_days that is no integer, or is an integer <= 0, is answered
\* 400 without a query; a positive integer n issues exactly one query, whose
\* below-threshold conditions are cover_days <= n
C2_CoverDaysThreshold ==
    (pc = "done" /\ endpoint = EstimatedStockoutEp /\ ~Blank("cover_days")) =>
        LET n == ParseInt(args["cover_days"])
        IN IF n.ok /\ n.v > 0
           THEN /\ Len(calls) = 1
                /\ response.status # 400
                /\ ThresholdAt(calls[1].sql) # {}
                /\ \A k \in ThresholdAt(calls[1].sql) : ThresholdIs(calls[1].sql, k, n.v)
           ELSE response.status = 400 /\ calls = <<>>

C2_Witness ==
    /\ pc = "done"
    /\ endpoint = EstimatedStockoutEp
    /\ DOMAIN args = {"cover_days"}
    /\ args["cover_days"] = <<"0", "5">>
    /\ Len(calls) = 1
    /\ ThresholdIs(calls[1].sql, 2, 5)
    /\ response.status = 200

\* every execute_query call of the request returned an empty result set
AllResultsEmpty ==
    /\ calls # <<>>
    /\ \A i \in 1..Len(calls) : calls[i].out.ok /\ calls[i].out.rows = <<>>

\* C3: whenever the executor returns an empty result set the response is 404
C3_EmptyResultIs404 ==
    (pc = "done" /\ AllResultsEmpty) => response.status = 404

\* the text of an error body, under "message" or under "error"
ErrorText(body) ==
    IF "message" \in DOMAIN body THEN body["message"] ELSE body["error"]

Contains(text, chunk) == \E i \in 1..Len(text) : text[i] = chunk

\* a cell of a numeric column that int() and float() reject
NonNumeric(x) == x.t = "str" /\ ~ParseInt(x.v).ok

\* the row mapper of endpoint ep raises on row
RowFails(ep, row) ==
    CASE ep = VarianceEp ->
           row[6].t = "null" \/ (row[6].v > 0 /\ row[5].t = "null")
      [] ep = "inventory/expected_stock_requirements_for_products_till_month_ends" ->
           row[2].t = "null" \/ row[3].t = "null"
      [] ep = "inventory/stock_distribution_and_status_across_all_locations" ->
           \E k \in 2..4 : NonNumeric(row[k])
      [] ep \in {TopProductsEp, "sales/overselling_products_based_on_sales",
                 "sales/underselling_products_based_on_sales"} ->
           \E k \in 2..4 : NonNumeric(row[k])
      [] ep = SalesRateEp -> NonNumeric(row[2])
      [] ep = ForecastEp -> \E k \in 3..5 : NonNumeric(row[k])
      [] OTHER -> FALSE

\* every query of the request returned rows and the mapper raises on one
MappingFails ==
    /\ calls # <<>>
    /\ \A i \in 1..Len(calls) : calls[i].out.ok
    /\ \E i \in 1..Len(calls) :
         \E j \in 1..Len(calls[i].out.rows) : RowFails(endpoint, calls[i].out.rows[j])

\* C4: when execute_query raises, the response is 500 and its text holds
\* the text of the exception; an exception of the row mapping is answered
\* 500 as well; no exception leaves a handler
C4_ExecutorFailureIs500 ==
    pc = "done" =>
        /\ ~uncaught
        /\ \A i \in 1..Len(calls) :
             ~calls[i].out.ok =>
                 /\ response.status = 500
                 /\ Contains(ErrorText(response.body), calls[i].out.err)
        /\ MappingFails => response.status = 500

C4_Witness ==
    /\ pc = "done"
    /\ endpoint = VarianceEp
    /\ Len(calls) = 2
    /\ calls[1].out.ok
    /\ calls[2].out = Raises("query timed out")
    /\ response.status = 500
    /\ response.body["message"] =
         <<"Error processing stock variance data: ", "query timed out">>

\* C5: the inventory-level report issues its query when location or
\* product_code is non-empty after trimming, and answers 400 with the
\* documented body, without a query, when both are empty
C5_InventoryLevelValidation ==
    (pc = "done" /\ endpoint = InventoryLevelEp) =>
        IF Blank("location") /\ Blank("product_code")
        THEN /\ response.status = 400
             /\ response.body =
                  ("status" :> 400) @@
                  ("message" :> <<"At least one parameter (location or product_code) is required">>)
             /\ calls = <<>>
        ELSE Len(calls) = 1 /\ response.status # 400

C5_Witness ==
    /\ pc = "done"
    /\ endpoint = InventoryLevelEp
    /\ DOMAIN args = {"product_code"}
    /\ args["product_code"] = <<"A">>
    /\ Len(calls) = 1
    /\ response.status = 200

StockedOutEp == "inventory/stocked_out_products_all_locations"
DiscontinuedEp == "inventory/discontinued_products_across_all_warehouse_locations"

\* the positions that bound the comma-separated pieces of s
Cuts(s) == {0} \cup {i \in 1..Len(s) : s[i] = ","} \cup {Len(s) + 1}
NthCut(s, k) == CHOOSE c \in Cuts(s) : Cardinality({d \in Cuts(s) : d < c}) = k - 1
\* the k-th piece of s, without its surrounding whitespace
TrimmedPiece(s, k) ==
    LET inked == {i \in (NthCut(s, k) + 1)..(NthCut(s, k + 1) - 1) :
                     s[i] \notin {" ", "\t"}}
    IN IF inked = {} THEN <<>>
       ELSE SubSeq(s, CHOOSE i \in inked : \A j \in inked : i <= j,
                      CHOOSE i \in inked : \A j \in inked : i >= j)
\* the product codes a concatenated-codes cell stands for
CodesOf(cell) ==
    IF cell.t = "null" \/ cell.v = <<>> THEN <<>>
    ELSE SelectSeq([k \in 1..(Cardinality(Cuts(cell.v)) - 1) |-> TrimmedPiece(cell.v, k)],
                   LAMBDA piece : piece # <<>>)

\* the product-code list of record i of the response
CodeList(i) ==
    IF endpoint = StockedOutEp THEN response.body[i]["Product codes"]
    ELSE response.body[i]["Discontinued Product Codes"]

\* C6: the product-code list of a record is the comma-split of the row's
\* concatenated codes, each piece trimmed, the empty pieces dropped, in
\* order; it holds no empty entry and no entry with outer whitespace
C6_ProductCodesSplit ==
    (pc = "done" /\ endpoint \in {StockedOutEp, DiscontinuedEp} /\ response.status = 200) =>
        \A i \in 1..Len(response.body) :
            /\ CodeList(i) = CodesOf(calls[1].out.rows[i][3])
            /\ \A k \in 1..Len(CodeList(i)) :
                 /\ CodeList(i)[k] # <<>>
                 /\ CodeList(i)[k][1] \notin {" ", "\t"}
                 /\ CodeList(i)[k][Len(CodeList(i)[k])] \notin {" ", "\t"}

C6_Witness ==
    /\ pc = "done"
    /\ endpoint = StockedOutEp
    /\ response.status = 200
    /\ Len(response.body) = 2
    /\ calls[1].out.rows[1][3] = PyStr(<<"A", "1", ",", " ", "B", "2", ",", " ", "C", "3">>)
    /\ response.body[1]["Product codes"] = << <<"A", "1">>, <<"B", "2">>, <<"C", "3">> >>
    /\ calls[1].out.rows[2][3] = PyStr(<<" ", "A", "1", " ", ",", ",">>)
    /\ response.body[2]["Product codes"] = << <<"A", "1">> >>

\* the records of both lists of the variance report
VarianceItems ==
    {response.body["positive_variance_data"][i] :
        i \in 1..Len(response.body["positive_variance_data"])}
    \cup {response.body["negative_variance_data"][i] :
            i \in 1..Len(response.body["negative_variance_data"])}

\* text is a percentage with exactly one decimal
OneDecimalPercent(text) ==
    /\ Len(text) >= 4
    /\ text[Len(text)] = "%"
    /\ text[Len(text) - 1] \in DigitSet
    /\ text[Len(text) - 2] = "."
    /\ \A i \in 1..(Len(text) - 3) : text[i] \in DigitSet \cup {"-"}

\* the number of tenths a one-decimal percentage text denotes
TenthsOf(text) ==
    LET neg == text[1] = "-"
        whole == SubSeq(text, IF neg THEN 2 ELSE 1, Len(text) - 3)
        t == DigitsValue(whole, 1, 0) * 10 + DigitVal(text[Len(text) - 1])
    IN IF neg THEN -t ELSE t

\* text is (current - ideal) / ideal * 100 to the nearest tenth
VariancyOf(text, current, ideal) ==
    /\ OneDecimalPercent(text)
    /\ 2 * Abs(TenthsOf(text) * ideal - (current - ideal) * 1000) <= ideal

\* C7: 'Variancy' is (current - ideal) / ideal * 100 with one decimal when
\* ideal_stock > 0, and is "0.0%" when ideal_stock is 0 or negative
C7_VariancyFormat ==
    (pc = "done" /\ endpoint = VarianceEp /\ response.status = 200) =>
        \A item \in VarianceItems :
            IF item["Ideal Stock Requirement"].v > 0
            THEN VariancyOf(item["Variancy"], item["Current Stock"].v,
                            item["Ideal Stock Requirement"].v)
            ELSE item["Variancy"] = <<"0", ".", "0", "%">>

\* the part of C7 the code keeps: the one-decimal percentage for ideal_stock > 0
C7_PositiveIdealFormat ==
    (pc = "done" /\ endpoint = VarianceEp /\ response.status = 200) =>
        \A item \in VarianceItems :
            item["Ideal Stock Requirement"].v > 0 =>
                VariancyOf(item["Variancy"], item["Current Stock"].v,
                           item["Ideal Stock Requirement"].v)

TopProductKeys ==
    <<"", "Current Month Sales Rate", "Current Month Forecast Rate",
      "Next Month Forecast Rate">>

\* C8: in the top-products report a null rate is mapped to 0.0 and the
\* response is 200: when the query returned and the response is 500 some
\* rate of the result is a non-null value that is no number
C8_NullRateIsZero ==
    (pc = "done" /\ endpoint = TopProductsEp /\ calls[1].out.ok) =>
        LET rows == calls[1].out.rows
        IN IF \A j \in 1..Len(rows) : \A k \in 2..4 : ~NonNumeric(rows[j][k])
           THEN /\ response.status = 200
                /\ \A j \in 1..Len(rows) : \A k \in 2..4 :
                     rows[j][k].t = "null" =>
                         response.body[j][TopProductKeys[k]] = PyNum(0)
           ELSE response.status = 500

C8_Witness ==
    /\ pc = "done"
    /\ endpoint = TopProductsEp
    /\ calls[1].out.ok
    /\ Len(calls[1].out.rows) = 2
    /\ calls[1].out.rows[1][4] = None
    /\ response.status = 200
    /\ response.body[1]["Next Month Forecast Rate"] = PyNum(0)

\* the request fails the parameter checks of its endpoint
ValidationFails ==
    \/ RequiredMissing
    \/ /\ endpoint = EstimatedStockoutEp
       /\ ~Blank("cover_days")
       /\ (~ParseInt(args["cover_days"]).ok \/ ParseInt(args["cover_days"]).v <= 0)
    \/ /\ endpoint \in {SalesRateEp, ForecastEp}
       /\ ~Blank("product_code")
       /\ ~ParseInt(args["product_code"]).ok

\* C9: every response has status 200, 400, 404 or 500; 400 only when the
\* parameter checks failed, 404 only when the executor returned no rows, 500
\* only when execute_query or the row mapping raised
C9_StatusTaxonomy ==
    pc = "done" =>
        /\ response.status \in {200, 400, 404, 500}
        /\ response.status = 400 => (ValidationFails /\ calls = <<>>)
        /\ response.status = 404 =>
             (calls # <<>> /\ calls[Len(calls)].out.ok /\ calls[Len(calls)].out.rows = <<>>)
        /\ response.status = 500 =>
             ((\E i \in 1..Len(calls) : ~calls[i].out.ok) \/ MappingFails)

C9_Witness ==
    /\ pc = "done"
    /\ endpoint = "inventory/expected_stock_requirements_for_products_till_month_ends"
    /\ calls # <<>>
    /\ calls[1].out.ok
    /\ MappingFails
    /\ response.status = 500

\* requests to ep that differ from one another in their parameter values only
RequestsTo(ep) ==
    CASE ep = InventoryLevelEp ->
           ArgSets({"location", "product_code"}, {<<"A">>, <<"A", "'">>})
      [] ep = EstimatedStockoutEp -> ArgSets({"cover_days"}, FewIntTexts)
      [] ep \in {SalesRateEp, ForecastEp} -> ArgSets({"product_code"}, FewIntTexts)
      [] OTHER -> IgnoredArgs

\* C10: the query text handed to execute_query is the same for any two
\* requests to an endpoint that differ only in their parameter values
C10_QueryTextIgnoresParameters ==
    (pc = "done" /\ calls # <<>>) =>
        \A a \in RequestsTo(endpoint) :
            LET other == Dispatch(endpoint, a, [i \in 1..2 |-> calls[1].out])
            IN other.calls # <<>> => other.calls[1].sql = calls[1].sql

OversellingEp == "sales/overselling_products_based_on_sales"
UndersellingEp == "sales/underselling_products_based_on_sales"
StockDistributionEp == "inventory/stock_distribution_and_status_across_all_locations"

\* the lists of records of a 200 response, one per query of the report
RecordLists ==
    IF endpoint = VarianceEp
    THEN <<response.body["positive_variance_data"], response.body["negative_variance_data"]>>
    ELSE IF endpoint \in {OversellingEp, UndersellingEp}
    THEN <<response.body["data"]>>
    ELSE <<response.body>>

\* an error response carries no record of a result
NoRecords ==
    /\ DOMAIN response.body \subseteq {"status", "message", "error", "data"}
    /\ (response.status = 404 /\ "data" \in DOMAIN response.body) =>
           response.body["data"] = <<>>
    /\ (response.status = 500 /\ "data" \in DOMAIN response.body) =>
           response.body["data"] = None

\* the response is the whole mapped result with 200, or an error response
\* without any part of a result
AllOrNothing ==
    IF response.status = 200
    THEN /\ Len(RecordLists) = Len(calls)
         /\ \A i \in 1..Len(calls) :
              calls[i].out.ok /\ Len(RecordLists[i]) = Len(calls[i].out.rows)
    ELSE response.status \in {400, 404, 500} /\ NoRecords

\* no query is issued after one that raised, and none is issued twice
NoRetry ==
    /\ \A i \in 1..(Len(calls) - 1) : calls[i].out.ok
    /\ \A i, j \in 1..Len(calls) : i # j => calls[i].sql # calls[j].sql

\* C11 as stated: a request that reaches the executor makes exactly one
\* execute_query call, the variance report exactly two; nothing is retried
\* and the response is the complete mapped result or an error response
C11_ExactlyOneOrTwoCalls ==
    (pc = "done" /\ calls # <<>>) =>
        /\ Len(calls) = (IF endpoint = VarianceEp THEN 2 ELSE 1)
        /\ NoRetry
        /\ AllOrNothing

\* C11 amended: as C11, but the variance report makes its second call only
\* when the first returned; when the first raises it has made exactly one
C11_CallsAndAtomicity ==
    (pc = "done" /\ calls # <<>>) =>
        /\ Len(calls) = (IF endpoint = VarianceEp /\ calls[1].out.ok THEN 2 ELSE 1)
        /\ NoRetry
        /\ AllOrNothing

C11_Witness ==
    /\ pc = "done"
    /\ endpoint = VarianceEp
    /\ Len(calls) = 1
    /\ calls[1].out = Raises("connection lost")
    /\ response.status = 500
    /\ NoRecords

\* record rec of a response of endpoint ep shows the identifying columns of row
RecordOfRow(ep, rec, row) ==
    CASE ep \in {"inventory/unique_product_categories",
                 "inventory/unique_warehouse_locations",
                 "sales/unique_product_categories",
                 "sales/unique_warehouse_locations"} -> rec = row[1]
      [] ep = StockedOutEp -> rec["Warehouse location"] = row[1]
      [] ep \in {DiscontinuedEp, EstimatedStockoutEp, SalesRateEp} ->
           rec["Warehouse Location"] = row[1]
      [] ep \in {"inventory/overstocked_products_by_location_and_product",
                 "inventory/understocked_products_by_location_and_product"} ->
           rec["Product Code"] = row[1] /\ rec["Warehouse Location"] = row[2]
      [] ep = StockDistributionEp ->
           rec["Warehouse Location"] =
               (IF row[1].t = "null" THEN <<"Unknown Location">> ELSE row[1].v)
      [] ep \in {VarianceEp, InventoryLevelEp, ForecastEp} ->
           rec["Warehouse Location"] = row[1] /\ rec["Product Code"] = row[2]
      [] ep \in {"inventory/expected_stock_requirements_for_products_till_month_ends",
                 TopProductsEp, OversellingEp, UndersellingEp} ->
           rec["Product Code"] = row[1]
      [] ep = "inventory/cover_days_summary" -> rec["Cover Days Range"] = row[1]

\* every query of the request returned, some rows came back and the row
\* mapper raises on none of them
RowsMapped ==
    /\ calls # <<>>
    /\ \A i \in 1..Len(calls) : calls[i].out.ok
    /\ \E i \in 1..Len(calls) : calls[i].out.rows # <<>>
    /\ ~MappingFails

\* C12: when the executor returns rows and the mapping raises nothing, the
\* response is 200 and its list holds one record per row, the j-th record
\* being that of the j-th row
C12_OneRecordPerRowInOrder ==
    (pc = "done" /\ RowsMapped) =>
        /\ response.status = 200
        /\ Len(RecordLists) = Len(calls)
        /\ \A i \in 1..Len(calls) :
             /\ Len(RecordLists[i]) = Len(calls[i].out.rows)
             /\ \A j \in 1..Len(calls[i].out.rows) :
                  RecordOfRow(endpoint, RecordLists[i][j], calls[i].out.rows[j])

C12_Witness ==
    /\ pc = "done"
    /\ endpoint = ForecastEp
    /\ RowsMapped
    /\ Len(calls[1].out.rows) = 2
    /\ calls[1].out.rows[1][1] = PyStr(<<"W2">>)
    /\ calls[1].out.rows[2][1] = PyStr(<<"W1">>)
    /\ response.status = 200
    /\ response.body[1]["Warehouse Location"] = PyStr(<<"W2">>)
    /\ response.body[2]["Warehouse Location"] = PyStr(<<"W1">>)

\* C13: in the two sales reports that take product_code, a value that is
\* empty after trimming is answered 400 'Product code is required'; a
\* non-empty value that is no integer is answered 400 'Product code must be
\* an integer'; neither issues a query; every integer, zero and negatives
\* included, issues the query with that integer as the product code
C13_ProductCodeInteger ==
    (pc = "done" /\ endpoint \in {SalesRateEp, ForecastEp}) =>
        IF Blank("product_code")
        THEN /\ response = Resp(400, ("status" :> "error") @@
                                     ("message" :> <<"Product code is required">>))
             /\ calls = <<>>
        ELSE IF ~ParseInt(args["product_code"]).ok
        THEN /\ response = Resp(400, ("status" :> "error") @@
                                     ("message" :> <<"Product code must be an integer">>))
             /\ calls = <<>>
        ELSE /\ Len(calls) = 1
             /\ response.status # 400
             /\ LET d == IntToStr(ParseInt(args["product_code"]).v)
                IN SubSeq(calls[1].sql, 2, Len(d) + 1) = d

C13_Witness ==
    /\ pc = "done"
    /\ endpoint = ForecastEp
    /\ DOMAIN args = {"product_code"}
    /\ args["product_code"] = <<"5", "a">>
    /\ response.status = 400
    /\ response.body["message"] = <<"Product code must be an integer">>
    /\ calls = <<>>

\* what worker w's request gets when it is the only request, given what the
\* executor returned for its query
Alone(w) ==
    Dispatch(endpoint[w], args[w],
             <<IF calls[w] = <<>> THEN Rows(<<>>) ELSE calls[w][1].out>>)

\* C14: under every interleaving of two concurrently handled requests, the
\* query and the response of each are those the request gets when it runs
\* alone with the same executor result
C14_RequestsIndependent ==
    \A w \in Workers :
        pc[w] = "done" =>
            /\ response[w] = Alone(w).response
            /\ calls[w] = Alone(w).calls
            /\ ~uncaught[w]

\* one request has been answered while the other is in the middle of its
\* row loop over a different result
C14_Witness ==
    /\ pc["w1"] = "done"
    /\ endpoint["w1"] = StockDistributionEp
    /\ response["w1"].status = 200
    /\ Len(response["w1"].body) = 2
    /\ pc["w2"] = "rows"
    /\ endpoint["w2"] = StockDistributionEp
    /\ frames["w2"].next = 2
    /\ frames["w2"].results # calls["w1"][1].out.rows

\* the count a cell of a count column stands for: 0 for null and for a
\* negative value, else the value (its integer part when it is a decimal)
CountShown(x) ==
    CASE x.t = "null" -> 0
      [] x.t = "int" -> IF x.v < 0 THEN 0 ELSE x.v
      [] x.t = "num" -> IF x.v < 0 THEN 0 ELSE x.v \div 10

\* C15: every record of the stock distribution summary shows the three
\* counts of its row, null and negative values as 0, and their sum as
\* 'Total Items'; the four fields are non-negative integers and the record
\* has no other field than these and the location (no grand total)
C15_StockDistributionTotals ==
    (pc = "done" /\ endpoint = StockDistributionEp /\ response.status = 200) =>
        /\ Len(response.body) = Len(calls[1].out.rows)
        /\ \A j \in 1..Len(response.body) :
             LET rec == response.body[j]
                 row == calls[1].out.rows[j]
             IN /\ DOMAIN rec = {"Warehouse Location", "Partially Stocked",
                                 "Fully Stocked", "Stocked Out", "Total Items"}
                /\ rec["Partially Stocked"] = CountShown(row[2])
                /\ rec["Fully Stocked"] = CountShown(row[3])
                /\ rec["Stocked Out"] = CountShown(row[4])
                /\ rec["Total Items"] = rec["Partially Stocked"] + rec["Fully Stocked"]
                                          + rec["Stocked Out"]
                /\ \A k \in {"Partially Stocked", "Fully Stocked", "Stocked Out",
                               "Total Items"} : rec[k] \in Nat

C15_Witness ==
    /\ pc = "done"
    /\ endpoint = StockDistributionEp
    /\ response.status = 200
    /\ Len(response.body) = 1
    /\ calls[1].out.rows[1][2] = PyInt(-1)
    /\ calls[1].out.rows[1][3] = None
    /\ calls[1].out.rows[1][4] = PyInt(2)
    /\ response.body[1]["Partially Stocked"] = 0
    /\ response.body[1]["Fully Stocked"] = 0
    /\ response.body[1]["Total Items"] = 2

\* the rate fields of the records of endpoint ep, each with the column of
\* the row it is taken from
RateColumns(ep) ==
    CASE ep = TopProductsEp ->
           {<<"Current Month Sales Rate", 2>>, <<"Current Month Forecast Rate", 3>>,
            <<"Next Month Forecast Rate", 4>>}
      [] ep = OversellingEp ->
           {<<"Total Sales per day", 2>>, <<"Total Forecast per day", 3>>,
            <<"Oversold per day", 4>>}
      [] ep = UndersellingEp ->
           {<<"Total Sales per day", 2>>, <<"Total Forecast per day", 3>>,
            <<"Undersold per day", 4>>}
      [] ep = SalesRateEp -> {<<"Sales rate per day", 2>>}
      [] ep = ForecastEp ->
           {<<"Average Forecast Rate", 3>>, <<"Average Sales Rate", 4>>,
            <<"Average Forecast Error", 5>>}

\* the rate shown for the cell x: 0.0 for null and for zero, else the
\* integer |x| truncated toward zero
RateShown(x) ==
    IF x.t = "null" \/ x.v = 0 THEN PyNum(0)
    ELSE PyInt(IF x.t = "int" THEN (IF x.v < 0 THEN -x.v ELSE x.v)
               ELSE (IF x.v < 0 THEN -x.v ELSE x.v) \div 10)

\* C16: in the five sales reports every rate field of every record is
\* non-negative: 0.0 for a null or zero rate, and for any other rate r,
\* negative or positive, the integer |r| truncated toward zero
C16_RatesAreMagnitudes ==
    (pc = "done" /\ response.status = 200
       /\ endpoint \in {TopProductsEp, OversellingEp, UndersellingEp, SalesRateEp, ForecastEp}) =>
        \A j \in 1..Len(RecordLists[1]) :
            \A fc \in RateColumns(endpoint) :
                /\ RecordLists[1][j][fc[1]] = RateShown(calls[1].out.rows[j][fc[2]])
                /\ RecordLists[1][j][fc[1]].v >= 0

C16_Witness ==
    /\ pc = "done"
    /\ endpoint = OversellingEp
    /\ response.status = 200
    /\ Len(response.body["data"]) = 2
    /\ calls[1].out.rows[1][3] = PyNum(-37)
    /\ response.body["data"][1]["Total Forecast per day"] = PyInt(3)
    /\ calls[1].out.rows[1][4] = None
    /\ response.body["data"][1]["Oversold per day"] = PyNum(0)

\* the positions of the chunk that opens a condition or a criterion in text
OpenedAt(text, opener) == {k \in 1..Len(text) : text[k] = opener}

\* text has exactly one part opened by opener, holding value
OneWith(text, opener, value) ==
    /\ Cardinality(OpenedAt(text, opener)) = 1
    /\ \A k \in OpenedAt(text, opener) :
         /\ k + Len(value) <= Len(text)
         /\ SubSeq(text, k + 1, k + Len(value)) = value

\* the value of parameter name as the handler uses it
Supplied(name) == Strip(args[name])

\* text has a part opened by opener exactly when parameter name is not
\* blank, and the part then holds the trimmed value
PartIffSupplied(text, opener, name) ==
    IF Blank(name) THEN OpenedAt(text, opener) = {}
    ELSE OneWith(text, opener, Supplied(name))

\* C17: the filter of the inventory-level query has a warehouse_location
\* condition iff location is not blank and a product_code condition iff
\* product_code is not blank, joined by AND when both are there, and is
\* never empty; the 404 message names exactly the supplied parameters
C17_InventoryLevelFilter ==
    (pc = "done" /\ endpoint = InventoryLevelEp /\ calls # <<>>) =>
        /\ PartIffSupplied(calls[1].sql, "warehouse_location = '", "location")
        /\ PartIffSupplied(calls[1].sql, "product_code = '", "product_code")
        /\ ~(Blank("location") /\ Blank("product_code"))
        /\ Cardinality(OpenedAt(calls[1].sql, " AND ")) =
             (IF ~Blank("location") /\ ~Blank("product_code") THEN 1 ELSE 0)
        /\ \A i \in OpenedAt(calls[1].sql, " AND ") :
             /\ \A k \in OpenedAt(calls[1].sql, "warehouse_location = '") : k < i
             /\ \A k \in OpenedAt(calls[1].sql, "product_code = '") : i < k
        /\ response.status = 404 =>
             /\ PartIffSupplied(response.body["message"], "location: ", "location")
             /\ PartIffSupplied(response.body["message"], "product code: ", "product_code")
             /\ Cardinality(OpenedAt(response.body["message"], " and ")) =
                  (IF ~Blank("location") /\ ~Blank("product_code") THEN 1 ELSE 0)

C17_Witness ==
    /\ pc = "done"
    /\ endpoint = InventoryLevelEp
    /\ DOMAIN args = {"location", "product_code"}
    /\ args["location"] = <<" ", "A">>
    /\ args["product_code"] = <<"A", " ">>
    /\ response.status = 404
    /\ calls[1].sql =
         <<"SELECT warehouse_location, product_code, stock_at_hand FROM tbl_available_stock_anom WHERE ",
           "warehouse_location = '", "A", "'", " AND ", "product_code = '", "A", "'",
           " ORDER BY warehouse_location, stock_at_hand DESC">>
    /\ response.body["message"] =
         <<"No inventory data found for ", "location: ", "A", " and ",
           "product code: ", "A">>

PositiveVarianceQuery ==
    <<"SELECT TOP 5 warehouse_location, product_code, product_category, stock_diff, stock_at_hand, ideal_required_quantity FROM tbl_available_stock_anom WHERE stock_diff > 0 ORDER BY stock_diff DESC">>
NegativeVarianceQuery ==
    <<"SELECT TOP 5 warehouse_location, product_code, product_category, stock_diff, stock_at_hand, ideal_required_quantity FROM tbl_available_stock_anom WHERE stock_diff < 0 ORDER BY stock_diff ASC">>

\* C18: the variance report issues the positive-variance query first and
\* the negative-variance query second; when the positive query raises the
\* negative one is not issued and the response is 500; when the negative
\* query raises the response is 500 and holds no positive result
C18_VarianceQueryOrder ==
    (pc = "done" /\ endpoint = VarianceEp) =>
        /\ Len(calls) \in {1, 2}
        /\ calls[1].sql = PositiveVarianceQuery
        /\ Len(calls) = 2 => (calls[1].out.ok /\ calls[2].sql = NegativeVarianceQuery)
        /\ ~calls[1].out.ok => (Len(calls) = 1 /\ response.status = 500)
        /\ (Len(calls) = 2 /\ ~calls[2].out.ok) =>
             /\ response.status = 500
             /\ DOMAIN response.body = {"status", "message"}
             /\ response.body["message"] =
                  <<"Error processing stock variance data: ", calls[2].out.err>>

C18_Witness ==
    /\ pc = "done"
    /\ endpoint = VarianceEp
    /\ Len(calls) = 2
    /\ calls[1].sql = PositiveVarianceQuery
    /\ calls[1].out.ok
    /\ Len(calls[1].out.rows) = 2
    /\ calls[2].sql = NegativeVarianceQuery
    /\ calls[2].out = Raises("connection lost")
    /\ response.status = 500
    /\ "positive_variance_data" \notin DOMAIN response.body

====
